---- MODULE Spec2Model ----
(***************************************************************************)
(* Model of the isearch daemon (src/daemon.js, second listing, lines       *)
(* 333-683): admission control, page pool, result cache and the retrieval  *)
(* pipeline of search().                                                   *)
(*                                                                         *)
(* The daemon is single threaded.  A step of the model is either           *)
(*   - a macrotask: an event delivered by the event loop (a request line   *)
(*     arriving on a connection, a browser call settling), run up to the   *)
(*     next await of a pending promise, or                                 *)
(*   - a microtask: the continuation of an await on an already settled     *)
(*     promise.  Microtasks are kept in runq and drain, in order, before   *)
(*     any further macrotask is delivered.                                 *)
(* Requests are numbered in the order their request line arrives, and a    *)
(* page handle is named by the least number no page has carried yet.       *)
(***************************************************************************)
EXTENDS Integers, Sequences, FiniteSets, TLC

MAX_CONCURRENT == 3

MAX_POOL_SIZE == MAX_CONCURRENT

\* 50 in the source (lib/constants.js); scaled down so that eviction is
\* reachable.
CACHE_MAX == 2

\* Most search requests a client population sends.
NumReq == 5

\* Distinct documents parseHtml() can yield.
NumMarkdowns == 1

\* The idle interval in clock ticks: 300000 ms in the source
\* (lib/constants.js), scaled down.
IDLE_TIMEOUT == 2

\* The polls startDaemon() makes before it gives up (10 s at 100 ms each in
\* the source).
STARTUP_TIMEOUT == 2

\* The rounds of stopAndWait()'s loop that fit into maxWait (5000 ms at
\* 200 ms and more each in the source).
MAX_WAIT == 2

\* The lifetime of a cache entry in clock ticks (300000 ms in the variant).
CACHE_TTL == 2

\* The variant's cache size limit (100 in the source), scaled down.
TTL_CACHE_MAX == 1

\* Distinct documents the variant's parseToMarkdown() can yield.
NumTtlDocs == 2

\* Most requests the variant daemon is sent.
NumTtlReq == 3

\* Latest time on the variant daemon's clock: late enough for an entry
\* stored at the start to have expired.
MaxNow == CACHE_TTL + 1

\* Daemons spawned concurrently.
NumDaemons == 2

\* Most termination signals an operator sends.
MaxSignals == 2

\* idleTimer once clearTimeout() has cancelled it.
NoTimer == 0 - 1

\* Consecutive CAPTCHA detections after which the next one is to escalate.
\* The daemon configures none; this is the number the history is watched for.
ChallengeThreshold == 2

\* Connections open at once in the workload of distinct queries.
MixedOpen == MAX_CONCURRENT - 1

\* Request numbers.
Requests == 1..NumReq

NoReq == 0

\* Requests sent to the variant daemon.
TtlRequests == 1..NumTtlReq

\* Daemon processes spawned, each by its own client.
Daemons == 1..NumDaemons

NoDaemon == 0

NoPage == 0

\* Every request constructs at most one page.
Pages == Requests

Alphabet == <<"a", "b", "c", "d", "e", "f">>

\* One more distinct key than the cache can hold.
Letters == { Alphabet[i] : i \in 1..(CACHE_MAX + 1) }

\* Other spellings of the query "a": in another case, with leading or trailing
\* blanks.
Spellings == { <<"A">>, <<" ", "a">>, <<"a", " ">>, <<" ", "A", " ">> }

\* The control commands handleRequest() recognises, as one-symbol queries.
STOP == <<"__STOP__">>

STATUS == <<"__STATUS__">>

Commands == {STOP, STATUS}

\* Query strings are sequences of characters.
Queries == { <<l>> : l \in Letters } \cup Spellings

\* parseHtml() results: document 1..NumMarkdowns, or 0 for the empty string.
EmptyMarkdown == 0

Markdowns == 1..NumMarkdowns

\* How the browser calls of one retrieval can end: page.goto() throws
\* ("navfail"), the CAPTCHA probe finds a challenge ("captcha"), a call throws
\* because the page crashed or was closed ("crashed"), or the content is
\* extracted and parsed ("parsed").
Outcomes ==
  { [kind |-> k, markdown |-> EmptyMarkdown] :
      k \in {"navfail", "captcha", "crashed"} }
  \cup { [kind |-> "parsed", markdown |-> m] : m \in Markdowns \cup {EmptyMarkdown} }

----------------------------------------------------------------------------
\* String.prototype.toLowerCase / trim, on sequences of characters.

LowerChar(ch) ==
  CASE ch = "A" -> "a"
    [] ch = "B" -> "b"
    [] ch = "C" -> "c"
    [] OTHER -> ch

toLowerCase(s) == [i \in 1..Len(s) |-> LowerChar(s[i])]

RECURSIVE trimStart(_)
trimStart(s) ==
  IF s # <<>> /\ Head(s) = " " THEN trimStart(Tail(s)) ELSE s

RECURSIVE trimEnd(_)
trimEnd(s) ==
  IF s # <<>> /\ s[Len(s)] = " " THEN trimEnd(SubSeq(s, 1, Len(s) - 1)) ELSE s

trim(s) == trimEnd(trimStart(s))

cacheKey_NoTrim(q) == toLowerCase(q)

\* search(): query.toLowerCase().trim()
cacheKey(q) == trim(toLowerCase(q))

----------------------------------------------------------------------------
\* The cache is a JavaScript Map: entries in insertion order.

cacheHas_Miss(c, k) == FALSE

cacheHas(c, k) == \E i \in 1..Len(c) : c[i].key = k

cacheGet(c, k) == c[CHOOSE i \in 1..Len(c) : c[i].key = k].markdown

cacheDelete(c, k) == SelectSeq(c, LAMBDA e : e.key # k)

\* Map.set: an existing key keeps its position, a new key goes last.
cacheSet(c, k, v) ==
  IF cacheHas(c, k)
    THEN [i \in 1..Len(c) |->
            IF c[i].key = k THEN [key |-> k, markdown |-> v] ELSE c[i]]
    ELSE Append(c, [key |-> k, markdown |-> v])

cacheKeys(c) == [i \in 1..Len(c) |-> c[i].key]

cacheRefresh_NoPromote(c, k) == c

\* search(), cache hit: delete and re-insert the entry.
cacheRefresh(c, k) == cacheSet(cacheDelete(c, k), k, cacheGet(c, k))

cachePut_NoEvict(c, k, v) == cacheSet(c, k, v)

cachePut_EvictNewest(c, k, v) ==
  LET c1 == cacheSet(c, k, v)
  IN  IF Len(c1) > CACHE_MAX THEN cacheDelete(c1, c1[Len(c1)].key) ELSE c1

\* search(), success: insert, then drop the first key if over the cap.
cachePut(c, k, v) ==
  LET c1 == cacheSet(c, k, v)
  IN  IF Len(c1) > CACHE_MAX THEN cacheDelete(c1, c1[1].key) ELSE c1

----------------------------------------------------------------------------
\* Admission control.

acquireSlot_NoEnqueue(aT, wq, r) ==
  IF aT < MAX_CONCURRENT
    THEN [activeTabs |-> aT + 1, waitQueue |-> wq, granted |-> TRUE]
    ELSE [activeTabs |-> aT, waitQueue |-> wq, granted |-> FALSE]

acquireSlot_OffByOne(aT, wq, r) ==
  IF aT <= MAX_CONCURRENT
    THEN [activeTabs |-> aT + 1, waitQueue |-> wq, granted |-> TRUE]
    ELSE [activeTabs |-> aT, waitQueue |-> Append(wq, r), granted |-> FALSE]

acquireSlot(aT, wq, r) ==
  IF aT < MAX_CONCURRENT
    THEN [activeTabs |-> aT + 1, waitQueue |-> wq, granted |-> TRUE]
    ELSE [activeTabs |-> aT, waitQueue |-> Append(wq, r), granted |-> FALSE]

releaseSlot_Lifo(aT, wq) ==
  IF Len(wq) > 0
    THEN [activeTabs |-> aT, waitQueue |-> SubSeq(wq, 1, Len(wq) - 1),
          next |-> wq[Len(wq)]]
    ELSE [activeTabs |-> aT - 1, waitQueue |-> wq, next |-> NoReq]

releaseSlot_AlwaysDecrement(aT, wq) ==
  IF Len(wq) > 0
    THEN [activeTabs |-> aT - 1, waitQueue |-> Tail(wq), next |-> Head(wq)]
    ELSE [activeTabs |-> aT - 1, waitQueue |-> wq, next |-> NoReq]

releaseSlot(aT, wq) ==
  IF Len(wq) > 0
    THEN [activeTabs |-> aT, waitQueue |-> Tail(wq), next |-> Head(wq)]
    ELSE [activeTabs |-> aT - 1, waitQueue |-> wq, next |-> NoReq]

----------------------------------------------------------------------------
\* Page pool.

poolCheckout_Peek(pool) == [page |-> pool[Len(pool)], pool |-> pool]

poolCheckout_Oldest(pool) == [page |-> Head(pool), pool |-> Tail(pool)]

\* getPage(), pool not empty: pagePool.pop().
poolCheckout(pool) ==
  [page |-> pool[Len(pool)], pool |-> SubSeq(pool, 1, Len(pool) - 1)]

poolReturn_Unbounded(pool, p) == [pool |-> Append(pool, p), close |-> FALSE]

\* search(), finally: push the page if the pool is below capacity, else
\* close it.
poolReturn(pool, p) ==
  IF Len(pool) < MAX_POOL_SIZE
    THEN [pool |-> Append(pool, p), close |-> FALSE]
    ELSE [pool |-> pool, close |-> TRUE]

----------------------------------------------------------------------------
\* Browser.

initContext_NoJoin(bc, bl) == IF bc THEN "context" ELSE "launch"

\* initContext(): return the context, return the stored launch promise, or
\* start a launch and store its promise.
initContext(bc, bl) ==
  IF bc THEN "context"
  ELSE IF bl # "null" THEN "join"
  ELSE "launch"

----------------------------------------------------------------------------
\* Idle timer.

resetIdleTimer_KeepRunning(t) == IF t = NoTimer THEN IDLE_TIMEOUT ELSE t

\* resetIdleTimer(): clear the running timer, arm a new one.
resetIdleTimer(t) == IDLE_TIMEOUT

----------------------------------------------------------------------------
\* State.

VARIABLES
  load,              \* the client population: what is sent, how many at once
  activeTabs,        \* let activeTabs
  waitQueue,         \* const waitQueue: suspended acquireSlot() callers
  pagePool,          \* const pagePool: idle pages
  cache,             \* const cache: Map, as a sequence of entries
  browserContext,    \* let browserContext: TRUE once launched
  browserLaunching,  \* let browserLaunching: "null" or the promise's state
  launchWaiters,     \* requests awaiting the browserLaunching promise
  profileExists,     \* fs.existsSync(PROFILE_PATH)
  pc,                \* where each request's handler is suspended
  query,             \* search()'s parameter `query` of each in-flight request
  key,               \* search()'s local `cacheKey` of each in-flight request
  page,              \* search()'s local `page` of each request
  result,            \* the response search() returned, until it is written
  response,          \* its `markdown` and `error` fields
  pageState,         \* what the browser holds each page to be
  runq,              \* microtask queue: continuations ready to run
  slotReleases,      \* history: releaseSlot() calls made by the request
  pageReleases,      \* history: pool returns / closes made by the request
  relSince,          \* history: pages pushed since the last getPage() call
  gotPage,           \* history: how getPage() produced the request's page
  navigations,       \* history: page.goto() calls made by the request
  challenges,        \* history: CAPTCHA detections since the last successful
                     \*          retrieval, where the workload counts them
  overlap,           \* history: some search started while another ran
  recency,           \* history: cache keys, least recently accessed first,
                     \*          kept while no searches have overlapped
  evicted,           \* history: some key has left the cache
  promoted,          \* history: a cache hit has moved a key that was not last
  cachedQuery,       \* history: for each cache entry, in the cache's order,
                     \*          the query whose retrieval last stored it
  proc,              \* the daemon process: "running" or "exited"
  listening,         \* `server` accepts connections
  socketFile,        \* SOCKET_PATH exists
  idleTimer,         \* time left on the idle timer, or NoTimer once cleared
  immediates,        \* setImmediate(shutdown) callbacks due, by request
  closing,           \* shutdown() calls awaiting browserContext.close()
  signals,           \* history: SIGINT/SIGTERM delivered
  begun,             \* history: what first called shutdown(), or "no"
  quiet,             \* history: time since a request was last handled
  browserAtExit,     \* history: what the browser was when the process exited
  launches,          \* history: launchPersistentContext() calls pending
  contexts,          \* history: browser contexts created and not closed
  clock,             \* Date.now() - startTime, where the workload keeps time
  conn,              \* the connection whose bytes the workload sends in
  client,            \* a client process inside search() of lib/client.js
  ttl,               \* the daemon variant whose cache entries expire
  boot               \* daemons spawned for one socket path, and the path
                     \* chunks: the handler's `buffer` and `processing`, and
                     \* what has happened on its socket

browserVars == <<browserContext, browserLaunching, launchWaiters, profileExists,
                 launches, contexts>>

vars == <<load, client, ttl, boot, activeTabs, waitQueue, pagePool, cache, browserContext,
          browserLaunching, launchWaiters, profileExists, pc, query, key, page,
          result, response, pageState, runq, slotReleases, pageReleases, relSince,
          gotPage, navigations, challenges, overlap, recency, evicted,
          promoted, cachedQuery, proc, listening, socketFile, idleTimer,
          immediates, closing, signals, begun, quiet, browserAtExit,
          launches, contexts, clock, conn>>

\* The lifecycle state a request handler does not touch after its first
\* statement.
lifeRest == <<proc, listening, socketFile, immediates, closing, signals,
              begun, browserAtExit>>

lifeVars == <<idleTimer, quiet, lifeRest, clock, conn>>

\* Nothing runs in a process that has exited.
Alive == proc = "running"

NoKey == <<>>

\* No response object yet.
NoResponse == [markdown |-> EmptyMarkdown, error |-> "none"]

\* The chunked connection before any byte has arrived: `sent` bytes of the
\* text have left the client, `request` is the number its message was given,
\* `written` the responses written to it, `ended` whether socket.end() has
\* been called, `gone` whether the client has dropped the connection.
\* The client before it calls search(): `queries` counts its query() calls,
\* `spawns` its spawn() calls, `elapsed` the polls startDaemon() has made,
\* `child` is the daemon it spawned, `request` the number the daemon gave its
\* request, `first` how its first query() ended, `outcome` what search()
\* returned or threw.
NoClient == [pc |-> "idle", queries |-> 0, spawns |-> 0, elapsed |-> 0,
             child |-> "none", request |-> NoReq, first |-> "none",
             outcome |-> "none"]

\* The variant daemon at start: its cache (entries with the time they were
\* stored), its clock, and its requests, each with its query, where its
\* search() stands and what it returned.
NoTtl == [cache |-> <<>>, now |-> 0,
          reqs |-> [r \in TtlRequests |->
                      [pc |-> "idle", query |-> NoKey, markdown |-> EmptyMarkdown,
                       fromCache |-> FALSE]],
          renewed |-> {}]

\* No daemon spawned, no socket file: `procs` is where each spawned daemon
\* stands, `owner` the daemon whose server created the file now at
\* SOCKET_PATH (NoDaemon: there is no file).
NoBoot == [procs |-> [d \in Daemons |-> "none"], owner |-> NoDaemon,
           clients |-> [c \in Daemons |-> "idle"]]

NoConn == [buffer |-> <<>>, processing |-> FALSE, sent |-> 0, request |-> NoReq,
           written |-> <<>>, ended |-> FALSE, gone |-> FALSE]

\* Requests between `await acquireSlot()` returning and releaseSlot().
SlotStages == {"granted", "launchWait", "launchFailed", "newPage", "goto",
               "closing"}

HoldsSlot(r) == pc[r] \in SlotStages

InSearch(r) == pc[r] = "waiting" \/ HoldsSlot(r)

Open(r) == pc[r] \notin {"idle", "done"}

\* The queries that stored the entries of cache c2, which follows cache c
\* (whose entries were stored by the queries st) by storing or refreshing
\* key k for query q.
StoredBy(c, st, c2, k, q) ==
  [i \in 1..Len(c2) |->
     IF c2[i].key = k THEN q
     ELSE st[CHOOSE j \in 1..Len(c) : c[j].key = c2[i].key]]

\* The recency order after an access to key k.
Touch(rec, k) == Append(SelectSeq(rec, LAMBDA x : x # k), k)

\* The queries a request may carry when every request carries one of qs.
Each(qs) == [r \in Requests |-> qs]

\* A burst of requests for one query, all at once.
BurstLoad == [reqs |-> NumReq, open |-> NumReq, queries |-> Each({ <<"a">> }),
              counted |-> FALSE, clocked |-> FALSE, wire |-> <<>>]

\* Requests for any of the queries, a few connections at a time: enough to
\* fill the cache, hit an entry and overflow it.  The queries are named in the
\* order of their first use, so the r-th request carries one of the first r.
MixedLoad == [reqs |-> CACHE_MAX + 2, open |-> MixedOpen,
              queries |-> [r \in Requests |->
                             { <<Alphabet[i]>> : i \in 1..(IF r < CACHE_MAX + 1
                                                            THEN r
                                                            ELSE CACHE_MAX + 1) }],
              counted |-> FALSE, clocked |-> FALSE, wire |-> <<>>]

\* One query in all its spellings, a few connections at a time.
SpelledLoad == [reqs |-> MAX_CONCURRENT, open |-> MixedOpen,
                queries |-> Each({ <<"a">> } \cup Spellings),
                counted |-> FALSE, clocked |-> FALSE, wire |-> <<>>]

\* Requests for one query, a few at a time, with the CAPTCHA detections since
\* the last successful retrieval counted: enough requests to pass the
\* threshold.
ChallengeLoad == [reqs |-> ChallengeThreshold + 2, open |-> MixedOpen,
                  queries |-> Each({ <<"a">> }), counted |-> TRUE,
                  clocked |-> FALSE, wire |-> <<>>]

\* State once the listen callback of startServer() has run: the warm-up
\* initContext() has either started a launch or thrown on a missing profile.
InitDaemon ==
  /\ activeTabs = 0
  /\ waitQueue = <<>>
  /\ pagePool = <<>>
  /\ cache = <<>>
  /\ browserContext = FALSE
  /\ profileExists \in BOOLEAN
  /\ browserLaunching = IF profileExists THEN "pending" ELSE "rejected"
  /\ launchWaiters = <<>>
  /\ pc = [r \in Requests |-> "idle"]
  /\ query = [r \in Requests |-> NoKey]
  /\ key = [r \in Requests |-> NoKey]
  /\ page = [r \in Requests |-> NoPage]
  /\ result = [r \in Requests |-> "none"]
  /\ response = [r \in Requests |-> NoResponse]
  /\ pageState = [p \in Pages |-> "none"]
  /\ runq = <<>>
  /\ slotReleases = [r \in Requests |-> 0]
  /\ pageReleases = [r \in Requests |-> 0]
  /\ relSince = <<>>
  /\ gotPage = [r \in Requests |-> "none"]
  /\ navigations = [r \in Requests |-> 0]
  /\ challenges = 0
  /\ overlap = FALSE
  /\ recency = <<>>
  /\ evicted = FALSE
  /\ promoted = FALSE
  /\ cachedQuery = <<>>
  /\ proc = "running"
  /\ listening = TRUE
  /\ socketFile = TRUE
  /\ idleTimer = IDLE_TIMEOUT
  /\ immediates = <<>>
  /\ closing = 0
  /\ signals = 0
  /\ begun = "no"
  /\ quiet = 0
  /\ browserAtExit = "running"
  /\ launches = IF profileExists THEN 1 ELSE 0
  /\ contexts = 0
  /\ clock = 0
  /\ conn = NoConn
  /\ client = NoClient
  /\ ttl = NoTtl
  /\ boot = NoBoot

Init == load = BurstLoad /\ InitDaemon

InitMixed == load = MixedLoad /\ InitDaemon

InitSpelled == load = SpelledLoad /\ InitDaemon

InitChallenge == load = ChallengeLoad /\ InitDaemon

\* Searches for one query and control commands, a few connections at a time,
\* while time passes and termination signals arrive.
LifeLoad == [reqs |-> MAX_CONCURRENT, open |-> MixedOpen,
             queries |-> Each({ <<"a">> }), counted |-> FALSE, clocked |-> FALSE, wire |-> <<>>]

InitLife == load = LifeLoad /\ InitDaemon

----------------------------------------------------------------------------
\* search(), from releaseSlot() in the finally block to the return: the
\* woken waiter's continuation is queued, then the returning request's.
ReleaseAndReturn(r, rq) ==
  LET rs == releaseSlot(activeTabs, waitQueue)
  IN  /\ activeTabs' = rs.activeTabs
      /\ waitQueue' = rs.waitQueue
      /\ pc' = [s \in Requests |->
                  IF s = r THEN "respond"
                  ELSE IF s = rs.next THEN "granted" ELSE pc[s]]
      /\ runq' = IF rs.next # NoReq THEN rq \o <<rs.next, r>>
                 ELSE Append(rq, r)
      /\ page' = [page EXCEPT ![r] = NoPage]
      /\ slotReleases' = [slotReleases EXCEPT ![r] = @ + 1]

\* search(), the finally block.  rq is the microtask queue without r, pst the
\* page states the try/catch left behind.
Finally(r, rq, pst) ==
  LET p == page[r]
      ret == poolReturn(pagePool, p)
  IN  IF p # NoPage /\ ret.close
        THEN \* await page.close()
             /\ pc' = [pc EXCEPT ![r] = "closing"]
             /\ runq' = rq
             /\ pageState' = pst
             /\ UNCHANGED <<activeTabs, waitQueue, pagePool, page,
                            slotReleases, pageReleases, relSince>>
        ELSE /\ pagePool' = IF p # NoPage THEN ret.pool ELSE pagePool
             /\ pageReleases' = IF p # NoPage
                                  THEN [pageReleases EXCEPT ![r] = @ + 1]
                                  ELSE pageReleases
             /\ relSince' = IF p # NoPage THEN Append(relSince, p)
                            ELSE relSince
             /\ pageState' = pst
             /\ ReleaseAndReturn(r, rq)

\* A catch that returns the error without reaching the finally block.
Fail_NoFinally(r, rq, pst, e) ==
  /\ result' = [result EXCEPT ![r] = "err"]
  /\ response' = [response EXCEPT ![r] = [markdown |-> EmptyMarkdown, error |-> e]]
  /\ pc' = [pc EXCEPT ![r] = "respond"]
  /\ runq' = Append(rq, r)
  /\ pageState' = pst
  /\ UNCHANGED <<activeTabs, waitQueue, pagePool, page, slotReleases,
                 pageReleases, relSince>>
  /\ UNCHANGED <<cache, recency, key, gotPage, navigations, overlap, evicted, promoted,
                 cachedQuery>>

\* search(), catch then finally: the request is answered with the error's
\* message e.
Fail(r, rq, pst, e) ==
  /\ result' = [result EXCEPT ![r] = "err"]
  /\ response' = [response EXCEPT ![r] = [markdown |-> EmptyMarkdown, error |-> e]]
  /\ Finally(r, rq, pst)
  /\ UNCHANGED <<cache, recency, key, gotPage, navigations, overlap, evicted, promoted,
                 cachedQuery>>

----------------------------------------------------------------------------
\* A request line {"query": q} arrives: handleRequest -> search(q), run up to
\* the cache-hit return or to `await acquireSlot()`.
Arrive(r, q) ==
  /\ Alive
  /\ runq = <<>>
  /\ pc[r] = "idle"
  /\ \A s \in Requests : s < r => pc[s] # "idle"
  /\ r <= load.reqs
  /\ q \in load.queries[r]
  /\ Cardinality({s \in Requests : Open(s)}) < load.open
  /\ overlap' = (overlap \/ \E s \in Requests : InSearch(s))
  /\ LET k == cacheKey(q)
     IN  /\ recency' = IF overlap' THEN <<>>
                       ELSE IF cacheHas(cache, k) THEN Touch(recency, k)
                       ELSE recency
         /\ IF cacheHas(cache, k)
              THEN /\ cache' = cacheRefresh(cache, k)
                   /\ cachedQuery' =
                        StoredBy(cache, cachedQuery, cache', k,
                                 cachedQuery[CHOOSE j \in 1..Len(cache) :
                                               cache[j].key = k])
                   /\ promoted' = (promoted \/ cache[Len(cache)].key # k)
                   /\ pc' = [pc EXCEPT ![r] = "respond"]
                   /\ result' = [result EXCEPT ![r] = "hit"]
                   /\ response' = [response EXCEPT ![r] =
                                     [markdown |-> cacheGet(cache, k),
                                      error |-> "none"]]
                   /\ runq' = <<r>>
                   /\ UNCHANGED <<activeTabs, waitQueue>>
              ELSE LET a == acquireSlot(activeTabs, waitQueue, r)
                   IN  /\ activeTabs' = a.activeTabs
                       /\ waitQueue' = a.waitQueue
                       /\ pc' = [pc EXCEPT ![r] =
                                   IF a.granted THEN "granted" ELSE "waiting"]
                       /\ runq' = IF a.granted THEN <<r>> ELSE <<>>
                       /\ UNCHANGED <<cache, result, response, promoted,
                                      cachedQuery>>
         /\ query' = [query EXCEPT ![r] = q]
         /\ key' = [key EXCEPT ![r] = k]
  /\ UNCHANGED <<load, ttl, boot, challenges, pagePool, page, pageState,
                 slotReleases,
                 pageReleases,
                 relSince, gotPage, navigations, evicted>>
  /\ UNCHANGED browserVars
  /\ idleTimer' = resetIdleTimer(idleTimer)
  /\ quiet' = 0
  /\ UNCHANGED <<lifeRest, clock>>

\* The continuation of `await acquireSlot()`: getPage() up to its first
\* pending await, or through `page.goto(...)` when a pooled page is reused.
GetPage(r) ==
  /\ Alive
  /\ runq # <<>> /\ Head(runq) = r
  /\ pc[r] = "granted"
  /\ UNCHANGED <<load, client, ttl, boot, query, challenges>>
  /\ IF Len(pagePool) > 0
       THEN LET co == poolCheckout(pagePool)
            IN  /\ pagePool' = co.pool
                /\ page' = [page EXCEPT ![r] = co.page]
                /\ pc' = [pc EXCEPT ![r] = "goto"]
                /\ runq' = Tail(runq)
                /\ relSince' = <<>>
                /\ gotPage' = [gotPage EXCEPT ![r] = "pooled"]
                /\ navigations' = [navigations EXCEPT ![r] = @ + 1]
                /\ UNCHANGED <<activeTabs, waitQueue, key, pageState,
                               slotReleases, pageReleases, result, response,
                               cache,
                               recency, overlap, evicted, promoted,
                               cachedQuery>>
                /\ UNCHANGED browserVars
       ELSE LET ic == initContext(browserContext, browserLaunching)
            IN
            IF ic = "context"
              THEN /\ pc' = [pc EXCEPT ![r] = "newPage"]
                   /\ runq' = Tail(runq)
                   /\ relSince' = <<>>
                   /\ UNCHANGED <<activeTabs, waitQueue, pagePool, key, page,
                                  pageState, slotReleases, pageReleases,
                                  result, response, cache, recency, gotPage, navigations,
                                  overlap, evicted, promoted, cachedQuery>>
                   /\ UNCHANGED browserVars
            ELSE IF (ic = "join" /\ browserLaunching = "pending")
                      \/ (ic = "launch" /\ profileExists)
              THEN \* the stored promise is pending, or a launch is started
                   /\ browserLaunching' = "pending"
                   /\ launches' = IF ic = "launch" THEN launches + 1
                                  ELSE launches
                   /\ launchWaiters' = Append(launchWaiters, r)
                   /\ pc' = [pc EXCEPT ![r] = "launchWait"]
                   /\ runq' = Tail(runq)
                   /\ relSince' = <<>>
                   /\ UNCHANGED <<activeTabs, waitQueue, pagePool, key, page,
                                  pageState, slotReleases, pageReleases,
                                  result, response, cache, recency, gotPage, navigations,
                                  overlap, evicted, promoted, cachedQuery,
                                  browserContext, contexts,
                                  profileExists>>
              ELSE \* the stored promise is rejected, or the new attempt
                   \* throws 'Profile not found' at once
                   /\ browserLaunching' = "rejected"
                   /\ UNCHANGED <<browserContext, launchWaiters, profileExists,
                                  launches, contexts>>
                   /\ Fail(r, Tail(runq), pageState,
                           IF profileExists THEN "launch" ELSE "profile")
  /\ UNCHANGED lifeVars

\* chromium.launchPersistentContext(...) settles.
LaunchDone(ok) ==
  /\ Alive
  /\ runq = <<>>
  /\ browserLaunching = "pending"
  /\ launchWaiters' = <<>>
  /\ launches' = launches - 1
  /\ IF ok
       THEN /\ browserContext' = TRUE
            /\ contexts' = contexts + 1
            /\ browserLaunching' = "fulfilled"
            /\ pc' = [r \in Requests |->
                        IF pc[r] = "launchWait" THEN "newPage" ELSE pc[r]]
            /\ runq' = <<>>
       ELSE /\ browserContext' = FALSE
            /\ contexts' = contexts
            /\ browserLaunching' = "null"
            /\ pc' = [r \in Requests |->
                        IF pc[r] = "launchWait" THEN "launchFailed" ELSE pc[r]]
            /\ runq' = launchWaiters
  /\ UNCHANGED <<load, client, ttl, boot, challenges, activeTabs, waitQueue, pagePool, cache,
                 profileExists,
                 query, key, page, result, response, pageState, slotReleases,
                 pageReleases, relSince, gotPage, navigations, overlap, recency, evicted,
                 promoted, cachedQuery>>
  /\ UNCHANGED lifeVars

\* The rejection of the awaited launch reaches search()'s catch.
LaunchFailed(r) ==
  /\ Alive
  /\ runq # <<>> /\ Head(runq) = r
  /\ pc[r] = "launchFailed"
  /\ Fail(r, Tail(runq), pageState, "launch")
  /\ UNCHANGED <<load, client, ttl, boot, query, challenges>>
  /\ UNCHANGED browserVars
  /\ UNCHANGED lifeVars

\* The handle ctx.newPage() yields next.
FreshPage == CHOOSE p \in Pages :
               /\ pageState[p] = "none"
               /\ \A o \in Pages : pageState[o] = "none" => p <= o

\* The rest of getPage() settles: ctx.newPage(), page.addInitScript(...) and
\* the CDP calls (a CDP failure is only logged).  Outcome "ok": the page is
\* returned and page.goto(...) is called; "noPage": newPage() threw;
\* "initScript": addInitScript() threw with the new page still open.
\* Between these awaits getPage() touches no daemon state, so they are one
\* step.
NewPageDone(r, o) ==
  /\ Alive
  /\ runq = <<>>
  /\ pc[r] = "newPage"
  /\ IF o = "ok"
       THEN /\ pc' = [pc EXCEPT ![r] = "goto"]
            /\ page' = [page EXCEPT ![r] = FreshPage]
            /\ pageState' = [pageState EXCEPT ![FreshPage] = "ok"]
            /\ gotPage' = [gotPage EXCEPT ![r] = "new"]
            /\ navigations' = [navigations EXCEPT ![r] = @ + 1]
            /\ UNCHANGED <<activeTabs, waitQueue, pagePool, key, runq,
                           slotReleases, pageReleases, relSince, result,
                           response, cache, recency, overlap, evicted,
                           promoted, cachedQuery>>
       ELSE Fail(r, runq,
                 IF o = "initScript"
                   THEN [pageState EXCEPT ![FreshPage] = "orphan"]
                   ELSE pageState,
                 "page")
  /\ UNCHANGED <<load, client, ttl, boot, query, challenges>>
  /\ UNCHANGED browserVars
  /\ UNCHANGED lifeVars

\* The message of the error a retrieval outcome ends in: page.goto() threw,
\* 'CAPTCHA detected...', a call on a crashed page threw, or 'Failed to parse
\* content.'.
ErrorOf(o) ==
  CASE o.kind = "navfail" -> "nav"
    [] o.kind = "captcha" -> "captcha"
    [] o.kind = "crashed" -> "crashed"
    [] OTHER -> "parse"

Retrieved_AcceptEmpty(o) == o.kind = "parsed"

Retrieved_NoCaptchaProbe(o) == o.kind \in {"parsed", "captcha"}

\* search(): nothing threw and `!markdown` is false, so the cache insert is
\* reached.
Retrieved(o) == o.kind = "parsed" /\ o.markdown # EmptyMarkdown

\* What the retrieval leaves the page as: usable, failed (navigation failure
\* or CAPTCHA page) or crashed.
PageAfter(o) ==
  CASE o.kind = "parsed" -> "ok"
    [] o.kind = "crashed" -> "crashed"
    [] OTHER -> "failed"

\* A browser call on the request's page settles.
\* pc = "goto": the retrieval, i.e. page.goto(...), the CAPTCHA probe, the
\* waits for the AI answer (a timeout there is only logged), page.$eval(...)
\* or page.content(), and parseHtml(); between these awaits search() touches
\* no daemon state, so they are one step.  A crashed page only throws.
\* pc = "closing": page.close() in the finally block (errors are swallowed).
PageSettles(r, o) ==
  /\ Alive
  /\ runq = <<>>
  /\ pc[r] \in {"goto", "closing"}
  /\ IF pc[r] = "goto"
       THEN /\ pageState[page[r]] = "crashed" => o.kind = "crashed"
            /\ IF Retrieved(o)
                 THEN /\ cache' = cachePut(cache, key[r], o.markdown)
                      /\ cachedQuery' = StoredBy(cache, cachedQuery, cache',
                                                 key[r], query[r])
                      /\ recency' = IF overlap THEN <<>>
                                    ELSE Touch(recency, key[r])
                      /\ evicted' = (evicted \/ \E i \in 1..Len(cache) :
                                        ~cacheHas(cache', cache[i].key))
                      /\ result' = [result EXCEPT ![r] = "ok"]
                      /\ response' = [response EXCEPT ![r] =
                                        [markdown |-> o.markdown,
                                         error |-> "none"]]
                      /\ Finally(r, runq,
                                 [pageState EXCEPT ![page[r]] = PageAfter(o)])
                      /\ UNCHANGED <<key, gotPage, navigations, overlap, promoted>>
                 ELSE Fail(r, runq,
                           [pageState EXCEPT ![page[r]] = PageAfter(o)],
                           ErrorOf(o))
       ELSE /\ pageState' = [pageState EXCEPT ![page[r]] = "closed"]
            /\ pageReleases' = [pageReleases EXCEPT ![r] = @ + 1]
            /\ ReleaseAndReturn(r, runq)
            /\ UNCHANGED <<pagePool, relSince, result, response, cache,
                           recency, key, gotPage, navigations, overlap, evicted, promoted,
                           cachedQuery>>
  /\ UNCHANGED <<load, client, ttl, boot, query>>
  /\ challenges' =
       IF ~load.counted \/ pc[r] # "goto" THEN challenges
       ELSE IF o.kind = "captcha"
         THEN (IF challenges > ChallengeThreshold THEN challenges
               ELSE challenges + 1)
       ELSE IF Retrieved(o) THEN 0
       ELSE challenges
  /\ UNCHANGED browserVars
  /\ UNCHANGED lifeVars

\* query() resolves with the response v.  search() returns it;
\* stopAndWait() starts its clock after the answer to __STOP__, and after an
\* answer to __STATUS__ sleeps 200 ms and is back at the head of its loop.
Settled(c, v) ==
  IF c.pc = "stopAwait" THEN [c EXCEPT !.pc = "polling", !.elapsed = 0]
  ELSE IF c.pc = "statusAwait" THEN [c EXCEPT !.pc = "polling", !.elapsed = @ + 1]
  ELSE [c EXCEPT !.pc = "returned", !.outcome = v,
                 !.first = IF c.queries = 1 THEN v ELSE @]

\* The client is inside query(): its request line is written and the
\* response not yet read.
InQuery(c) == c.pc \in {"awaiting", "stopAwait", "statusAwait"}

socketOnError_Unhandled(p) == "crashed"

\* socket.on('error', () => { }): a failed write raises an 'error' event on
\* the socket, which the listener drops.
socketOnError(p) == p

\* The continuation of `await handleRequest(req)`: the response is written
\* and the connection ended; the handler's locals are gone.  A write to a
\* connection the client has dropped fails.
Respond(r) ==
  /\ Alive
  /\ runq # <<>> /\ Head(runq) = r
  /\ pc[r] = "respond"
  /\ pc' = [pc EXCEPT ![r] = "done"]
  /\ runq' = Tail(runq)
  /\ query' = [query EXCEPT ![r] = NoKey]
  /\ key' = [key EXCEPT ![r] = NoKey]
  /\ result' = [result EXCEPT ![r] = "none"]
  /\ response' = [response EXCEPT ![r] = NoResponse]
  /\ slotReleases' = [slotReleases EXCEPT ![r] = 0]
  /\ pageReleases' = [pageReleases EXCEPT ![r] = 0]
  /\ gotPage' = [gotPage EXCEPT ![r] = "none"]
  /\ navigations' = [navigations EXCEPT ![r] = 0]
  /\ UNCHANGED <<load, ttl, boot, challenges, activeTabs, waitQueue, pagePool,
                 cache,
                 page,
                 pageState, relSince, overlap, recency, evicted, promoted,
                 cachedQuery>>
  /\ UNCHANGED browserVars
  /\ conn' = IF conn.request # r THEN conn
             ELSE IF conn.gone THEN [conn EXCEPT !.ended = TRUE]
             ELSE [conn EXCEPT !.written = Append(@, result[r]),
                               !.ended = TRUE]
  /\ proc' = IF conn.request = r /\ conn.gone THEN socketOnError(proc)
             ELSE proc
  /\ client' = IF client.request = r /\ InQuery(client)
                 THEN Settled(client, result[r])
                 ELSE client
  /\ UNCHANGED <<idleTimer, quiet, clock, listening, socketFile, immediates,
                 closing, signals, begun, browserAtExit>>

----------------------------------------------------------------------------
\* Lifecycle.

\* The requests all other state belongs to: every variable the lifecycle
\* steps leave alone.
poolVars == <<load, ttl, boot, activeTabs, waitQueue, pagePool, cache,
              browserContext, browserLaunching, launchWaiters, profileExists,
              page, pageState, slotReleases, pageReleases, relSince, gotPage,
              navigations, challenges, overlap, recency, evicted, promoted,
              cachedQuery, launches, contexts>>

searchVars == <<client, poolVars>>

statusOf_BrowserLaunching(t, c, bc) ==
  [status |-> "running", uptime |-> t, cacheSize |-> Len(c),
   browser |-> IF bc \/ browserLaunching # "null" THEN "connected"
               ELSE "initializing"]

\* handleRequest(), the object returned for __STATUS__ at time t with cache c
\* and browser context bc.
statusOf(t, c, bc) ==
  [status |-> "running", uptime |-> t, cacheSize |-> Len(c),
   browser |-> IF bc THEN "connected" ELSE "initializing"]

\* A request line {"query": cmd} with a control command arrives:
\* handleRequest() rearms the idle timer and returns {stopped: true}, after
\* setImmediate(shutdown), or the status object.
Control(r, cmd) ==
  /\ Alive
  /\ runq = <<>>
  /\ pc[r] = "idle"
  /\ \A s \in Requests : s < r => pc[s] # "idle"
  /\ r <= load.reqs
  /\ cmd \in Commands
  /\ Cardinality({s \in Requests : Open(s)}) < load.open
  /\ idleTimer' = resetIdleTimer(idleTimer)
  /\ quiet' = 0
  /\ immediates' = IF cmd = STOP THEN Append(immediates, r) ELSE immediates
  /\ query' = [query EXCEPT ![r] = cmd]
  /\ result' = [result EXCEPT ![r] = IF cmd = STOP THEN "stopped" ELSE "status"]
  /\ response' = IF cmd = STOP THEN response
                 ELSE [response EXCEPT ![r] =
                         statusOf(clock, cache, browserContext)]
  /\ pc' = [pc EXCEPT ![r] = "respond"]
  /\ runq' = <<r>>
  /\ UNCHANGED <<proc, listening, socketFile, closing, signals, begun,
                 browserAtExit, key, clock>>
  /\ UNCHANGED poolVars

\* The process ends, and its memory is gone with it.  b is what the browser
\* is at that point, f whether SOCKET_PATH still exists afterwards.
Ends(b, f) ==
  /\ proc' = "exited"
  /\ listening' = FALSE
  /\ socketFile' = f
  /\ browserAtExit' = b
  /\ idleTimer' = NoTimer
  /\ immediates' = <<>>
  /\ closing' = 0
  /\ quiet' = 0
  /\ activeTabs' = 0
  /\ waitQueue' = <<>>
  /\ pagePool' = <<>>
  /\ cache' = <<>>
  /\ cachedQuery' = <<>>
  /\ browserContext' = FALSE
  /\ browserLaunching' = "null"
  /\ launchWaiters' = <<>>
  /\ launches' = 0
  /\ contexts' = 0
  /\ clock' = 0
  /\ conn' = NoConn
  /\ pc' = [r \in Requests |-> IF pc[r] = "idle" THEN "idle" ELSE "done"]
  /\ query' = [r \in Requests |-> NoKey]
  /\ key' = [r \in Requests |-> NoKey]
  /\ page' = [r \in Requests |-> NoPage]
  /\ result' = [r \in Requests |-> "none"]
  /\ response' = [r \in Requests |-> NoResponse]
  /\ pageState' = [p \in Pages |-> "none"]
  /\ runq' = <<>>
  /\ slotReleases' = [r \in Requests |-> 0]
  /\ pageReleases' = [r \in Requests |-> 0]
  /\ relSince' = <<>>
  /\ gotPage' = [r \in Requests |-> "none"]
  /\ navigations' = [r \in Requests |-> 0]
  /\ recency' = <<>>
  /\ UNCHANGED <<load, client, ttl, boot, profileExists, challenges, overlap, evicted, promoted>>

\* shutdown(), from its last await on: server.close(), unlinkSync(SOCKET_PATH),
\* process.exit(0).
Exit(b) == Ends(b, FALSE)

\* shutdown() called by trigger t, up to its await or, with no browser, to
\* the end; imm are the setImmediate callbacks still due.
shutdown(imm, t) ==
  /\ begun' = IF begun = "no" THEN t ELSE begun
  /\ IF browserContext
       THEN /\ idleTimer' = NoTimer
            /\ closing' = closing + 1
            /\ immediates' = imm
            /\ UNCHANGED <<proc, listening, socketFile, browserAtExit, quiet,
                           pc, query, key, result, response, runq, clock,
                           conn>>
            /\ UNCHANGED searchVars
       ELSE Exit("none")

\* SIGINT or SIGTERM is delivered.
Signal ==
  /\ Alive
  /\ runq = <<>>
  /\ signals < MaxSignals
  /\ shutdown(immediates, "signal")
  /\ signals' = signals + 1

\* The idle timer fires.
IdleExpires ==
  /\ Alive
  /\ runq = <<>>
  /\ idleTimer = 0
  /\ shutdown(immediates, "idle")
  /\ UNCHANGED signals

ImmediateReady_NextTick(rq) == TRUE

\* setImmediate callbacks run once the microtasks of the current task have
\* drained.
ImmediateReady(rq) == rq = <<>>

\* The setImmediate(shutdown) of a __STOP__ request runs.
StopImmediate ==
  /\ Alive
  /\ ImmediateReady(runq)
  /\ immediates # <<>>
  /\ shutdown(Tail(immediates), "stop")
  /\ UNCHANGED signals

\* The promise of the i-th pending browserContext.close() call settles
\* (errors are swallowed) and that shutdown() call runs to process.exit(0).
\* The first call settles when the browser has closed; what a later call on
\* the closing context waits for is the browser library's choice.
CloseSettles(i) ==
  /\ Alive
  /\ runq = <<>>
  /\ i \in 1..closing
  /\ Exit(IF i = 1 THEN "closed" ELSE "closing")
  /\ UNCHANGED <<signals, begun>>

\* One clock tick passes with the idle timer running.  A timer that is due
\* fires before more time passes.
Tick ==
  /\ Alive
  /\ runq = <<>>
  /\ idleTimer > 0
  /\ idleTimer' = idleTimer - 1
  /\ quiet' = quiet + 1
  /\ clock' = IF load.clocked THEN clock + 1 ELSE clock
  /\ UNCHANGED <<lifeRest, conn>>
  /\ UNCHANGED <<pc, query, key, result, response, runq>>
  /\ UNCHANGED searchVars

----------------------------------------------------------------------------
\* The event loop delivers an event to the request it is for.
\* The request whose continuation is first in the microtask queue.
Running == IF runq = <<>> THEN {} ELSE {Head(runq)}

\* The requests suspended at one of the stages.
Awaiting(stages) == {r \in Requests : pc[r] \in stages}

\* The request whose request line arrives next.
Arriving ==
  {r \in Requests : pc[r] = "idle" /\ \A s \in Requests : s < r => pc[s] # "idle"}

----------------------------------------------------------------------------
\* The connection handler.  A request text is a sequence of tokens, each a
\* run of bytes: the braces of a JSON object, its one member, the literal
\* null, and the newline.

Newline == "\n"

\* The `query` member a token spells, as its type and, for a string, its
\* characters.
Member(tok) ==
  CASE tok = "q:a" -> [type |-> "string", chars |-> <<"a">>]
    [] tok = "q:__STATUS__" -> [type |-> "string", chars |-> STATUS]
    [] tok = "q:__STOP__" -> [type |-> "string", chars |-> STOP]
    [] tok = "q:5" -> [type |-> "number", chars |-> <<>>]
    [] OTHER -> [type |-> "undefined", chars |-> <<>>]

Members == {"q:a", "q:__STATUS__", "q:__STOP__", "q:5"}

\* JSON.parse(msg): the value, or that it throws.
JSONparse(msg) ==
  IF msg = <<"null">>
    THEN [throws |-> FALSE, null |-> TRUE, query |-> Member("")]
  ELSE IF msg = <<"{", "}">>
    THEN [throws |-> FALSE, null |-> FALSE, query |-> Member("")]
  ELSE IF Len(msg) = 3 /\ msg[1] = "{" /\ msg[2] \in Members /\ msg[3] = "}"
    THEN [throws |-> FALSE, null |-> FALSE, query |-> Member(msg[2])]
  ELSE [throws |-> TRUE, null |-> FALSE, query |-> Member("")]

\* String.prototype.indexOf, positions counted from 1 and 0 for "not found".
indexOf(s, ch) ==
  IF \E i \in 1..Len(s) : s[i] = ch
    THEN CHOOSE i \in 1..Len(s) : s[i] = ch /\ \A j \in 1..(i - 1) : s[j] # ch
    ELSE 0

Parses_Reentrant(processing, idx) == idx # 0

\* The data handler goes on to parse: it is not processing a message already
\* and the buffer holds a newline at idx.
Parses(processing, idx) == ~processing /\ idx # 0

\* handleRequest(), `!data || typeof data.query !== 'string'`.
InvalidRequest(data) == data.null \/ data.query.type # "string"

\* handleRequest() returns {error: 'Invalid request'} for request r, after
\* the resetIdleTimer() call it starts with.
Invalid(r, data) ==
  /\ Alive
  /\ runq = <<>>
  /\ pc[r] = "idle"
  /\ r <= load.reqs
  /\ InvalidRequest(data)
  /\ idleTimer' = resetIdleTimer(idleTimer)
  /\ quiet' = 0
  /\ result' = [result EXCEPT ![r] = "invalid"]
  /\ pc' = [pc EXCEPT ![r] = "respond"]
  /\ runq' = <<r>>
  /\ UNCHANGED <<proc, listening, socketFile, immediates, closing, signals,
                 begun, browserAtExit, query, key, response, clock>>
  /\ UNCHANGED searchVars

\* handleRequest(data) for request r.
handleRequest(r, data) ==
  IF InvalidRequest(data) THEN Invalid(r, data)
  ELSE IF data.query.chars \in Commands THEN Control(r, data.query.chars) /\ UNCHANGED client
  ELSE Arrive(r, data.query.chars) /\ UNCHANGED client

\* A chunk of n tokens arrives on the connection: the 'data' listener, up to
\* the first await or to its end.
Data(n) ==
  /\ Alive
  /\ runq = <<>>
  /\ ~conn.gone
  /\ conn.sent + n <= Len(load.wire)
  /\ LET chunk == SubSeq(load.wire, conn.sent + 1, conn.sent + n)
         buf == conn.buffer \o chunk
         idx == indexOf(buf, Newline)
         arrived == [conn EXCEPT !.buffer = buf, !.sent = @ + n]
     IN  IF ~Parses(conn.processing, idx)
           THEN /\ conn' = arrived
                /\ UNCHANGED <<pc, query, key, result, response, runq,
                               idleTimer, quiet, lifeRest, clock>>
                /\ UNCHANGED searchVars
           ELSE LET data == JSONparse(SubSeq(buf, 1, idx - 1))
                IN  IF data.throws
                      THEN \* catch: {error: 'Internal error'}, socket.end()
                           /\ conn' = [arrived EXCEPT
                                         !.processing = TRUE,
                                         !.written = Append(@, "internal"),
                                         !.ended = TRUE]
                           /\ UNCHANGED <<pc, query, key, result, response,
                                          runq, idleTimer, quiet, lifeRest,
                                          clock>>
                           /\ UNCHANGED searchVars
                      ELSE \E r \in Arriving :
                             /\ conn' = [arrived EXCEPT !.processing = TRUE,
                                                        !.request = r]
                             /\ handleRequest(r, data)

\* The client drops the connection while its request is being handled.
Disconnect ==
  /\ Alive
  /\ runq = <<>>
  /\ conn.request # NoReq
  /\ ~conn.ended
  /\ ~conn.gone
  /\ conn' = [conn EXCEPT !.gone = TRUE]
  /\ UNCHANGED <<pc, query, key, result, response, runq, idleTimer, quiet,
                 lifeRest, clock>>
  /\ UNCHANGED searchVars

----------------------------------------------------------------------------
Next ==
  \/ \E r \in Arriving : \E q \in load.queries[r] :
        Arrive(r, q) /\ UNCHANGED <<conn, client>>
  \/ \E r \in Running : GetPage(r)
  \/ \E ok \in BOOLEAN : LaunchDone(ok)
  \/ \E r \in Running : LaunchFailed(r)
  \/ \E r \in Awaiting({"newPage"}), o \in {"ok", "noPage", "initScript"} :
        NewPageDone(r, o)
  \/ \E r \in Awaiting({"goto", "closing"}), o \in Outcomes : PageSettles(r, o)
  \/ \E r \in Running : Respond(r)

\* The daemon under a burst of requests for one query.
Spec == Init /\ [][Next]_vars

\* The daemon under requests for distinct queries, a few at a time.
SpecMixed == InitMixed /\ [][Next]_vars

\* The daemon under requests for one query in several spellings.
SpecSpelled == InitSpelled /\ [][Next]_vars

\* The daemon under requests whose CAPTCHA detections are counted.
SpecChallenge == InitChallenge /\ [][Next]_vars

NextLife ==
  \/ Next
  \/ \E r \in Arriving, cmd \in Commands : Control(r, cmd) /\ UNCHANGED <<conn, client>>
  \/ Signal
  \/ IdleExpires
  \/ StopImmediate
  \/ \E i \in 1..closing : CloseSettles(i)
  \/ Tick

\* The daemon over its whole life: searches, control commands, the idle
\* timer and termination signals.
SpecLife == InitLife /\ [][NextLife]_vars

\* The texts sent on the chunked connection: two requests, a query that is
\* not a string, the literal null, a line that is not JSON followed by more
\* bytes, and a status request.
Wires ==
  { <<"{", "q:a", "}", Newline, "{", "q:a", "}", Newline>>,
    <<"{", "q:5", "}", Newline>>,
    <<"null", Newline>>,
    <<"{", "q:a", Newline, "}", Newline>>,
    <<"{", "q:__STATUS__", "}", Newline>> }

\* One connection sending text w in chunks of any sizes, beside requests
\* that arrive whole, with the clock running.
WireLoad(w) == [reqs |-> 2, open |-> 2, queries |-> Each({ <<"a">> }),
                counted |-> FALSE, clocked |-> TRUE, wire |-> w]

InitWire == load \in { WireLoad(w) : w \in Wires } /\ InitDaemon

NextWire ==
  \/ Next
  \/ \E n \in 1..(Len(load.wire) - conn.sent) : Data(n)
  \/ Disconnect
  \/ IdleExpires
  \/ \E i \in 1..closing : CloseSettles(i)
  \/ Tick

\* The daemon with one connection's bytes arriving in chunks.
SpecWire == InitWire /\ [][NextWire]_vars

----------------------------------------------------------------------------
\* MAX_CONCURRENT requests for distinct queries at once and one more behind
\* them, which has to queue or finds its answer cached.
LiveLoad == [reqs |-> MAX_CONCURRENT + 1, open |-> MAX_CONCURRENT + 1,
             queries |-> [r \in Requests |->
                            { <<Alphabet[IF r <= MAX_CONCURRENT THEN r ELSE 1]>> }],
             counted |-> FALSE, clocked |-> FALSE, wire |-> <<>>]

InitLive == load = LiveLoad /\ InitDaemon

\* Every browser call returns or times out, and the event loop runs every
\* continuation that is ready.  Nothing obliges a client to send a request.
Fairness ==
  /\ WF_vars(\E r \in Running : GetPage(r))
  /\ WF_vars(\E ok \in BOOLEAN : LaunchDone(ok))
  /\ WF_vars(\E r \in Running : LaunchFailed(r))
  /\ WF_vars(\E r \in Awaiting({"newPage"}), o \in {"ok", "noPage", "initScript"} :
               NewPageDone(r, o))
  /\ WF_vars(\E r \in Awaiting({"goto", "closing"}), o \in Outcomes :
               PageSettles(r, o))
  /\ WF_vars(\E r \in Running : Respond(r))

\* The daemon with no shutdown, its browser calls all settling.
SpecLive == InitLive /\ [][Next]_vars /\ Fairness

----------------------------------------------------------------------------
\* The client, search() of lib/client.js, beside the daemon it talks to.

\* The error of net.createConnection(SOCKET_PATH): no socket file, a socket
\* file nobody listens on, or none.
connectError(file, listens) ==
  IF ~file THEN "ENOENT" ELSE IF ~listens THEN "ECONNREFUSED" ELSE "none"

needsDaemon_Any(code) == TRUE

\* search(), `err.code === 'ENOENT' || err.code === 'ECONNREFUSED'`.
needsDaemon(code) == code \in {"ENOENT", "ECONNREFUSED"}

Caught_Every(n) == TRUE

\* search(): the n-th query() call is inside the try block.
Caught(n) == n = 1

\* The n-th query() call of client c rejects with error e: search() either
\* calls startDaemon(), which spawns the daemon and schedules the first
\* poll, or throws e.
Rejected(c, e) ==
  LET d == [c EXCEPT !.first = IF c.queries = 1 THEN e ELSE @]
  IN  IF Caught(c.queries) /\ needsDaemon(e)
        THEN [d EXCEPT !.pc = "startup", !.spawns = @ + 1, !.elapsed = 0,
                       !.child = "starting"]
        ELSE [d EXCEPT !.pc = "returned", !.outcome = e]

\* Nothing of the daemon changes in a step of the client alone, or of
\* another process.
ClientOnly ==
  /\ UNCHANGED <<pc, query, key, result, response, runq, conn>>
  /\ UNCHANGED <<idleTimer, quiet, lifeRest, clock>>
  /\ UNCHANGED <<activeTabs, waitQueue, pagePool, cache, browserVars, page,
                 pageState, slotReleases, pageReleases, relSince, gotPage,
                 navigations, challenges, overlap, recency, evicted, promoted,
                 cachedQuery, load>>

\* search(q) is called: query() creates its connection.
Search ==
  /\ client.pc = "idle"
  /\ client' = [client EXCEPT !.pc = "connecting", !.queries = 1]
  /\ ClientOnly /\ UNCHANGED <<ttl, boot>>

\* The connection of query() fails: with the error the socket's state
\* gives, or with one of the client's own (no permission on the socket).
ConnectFails ==
  /\ client.pc = "connecting"
  /\ \E e \in {connectError(socketFile, listening), "EACCES"} :
       /\ e # "none"
       /\ client' = Rejected(client, e)
  /\ ClientOnly /\ UNCHANGED <<ttl, boot>>

\* The connection of query() is made and the request line written: the
\* daemon handles it as request r.
Connected(r) ==
  /\ client.pc = "connecting"
  /\ connectError(socketFile, listening) = "none"
  /\ \E q \in load.queries[r] : Arrive(r, q)
  /\ client' = [client EXCEPT !.pc = "awaiting", !.request = r]
  /\ UNCHANGED conn

\* query(): the timer fires before the response has come.
RequestTimeout ==
  /\ client.pc = "awaiting"
  /\ client' = Rejected(client, "Request timeout")
  /\ ClientOnly /\ UNCHANGED <<ttl, boot>>

\* query(): the connection ends without a response that parses, the daemon
\* having exited with the request in flight.
InvalidResponse ==
  /\ client.pc = "awaiting"
  /\ ~Alive
  /\ client' = Rejected(client, "Invalid daemon response")
  /\ ClientOnly /\ UNCHANGED <<ttl, boot>>

\* startDaemon(), poll(): past the deadline it rejects and search() throws;
\* a connection that succeeds resolves it and search() calls query() again;
\* one that fails schedules the next poll.
Poll ==
  /\ client.pc = "startup"
  /\ client' =
       IF client.elapsed > STARTUP_TIMEOUT
         THEN [client EXCEPT !.pc = "returned",
                             !.outcome = "Daemon startup timeout"]
       ELSE IF connectError(socketFile, listening) = "none"
         THEN [client EXCEPT !.pc = "connecting", !.queries = @ + 1]
       ELSE [client EXCEPT !.elapsed = @ + 1]
  /\ ClientOnly /\ UNCHANGED <<ttl, boot>>

\* The spawned daemon runs startServer() up to its listen callback.
startServer ==
  /\ client.child = "starting"
  /\ ~Alive
  /\ client' = [client EXCEPT !.child = "up"]
  /\ proc' = "running"
  /\ listening' = TRUE
  /\ socketFile' = TRUE
  /\ idleTimer' = IDLE_TIMEOUT
  /\ browserLaunching' = IF profileExists THEN "pending" ELSE "rejected"
  /\ launches' = IF profileExists THEN 1 ELSE 0
  /\ begun' = "no"
  /\ signals' = 0
  /\ browserAtExit' = "running"
  /\ UNCHANGED <<pc, query, key, result, response, runq, conn, quiet, clock,
                 immediates, closing>>
  /\ UNCHANGED <<activeTabs, waitQueue, pagePool, cache, browserContext,
                 launchWaiters, profileExists, contexts, page,
                 pageState, slotReleases, pageReleases, relSince, gotPage,
                 navigations, challenges, overlap, recency, evicted, promoted,
                 cachedQuery, load, ttl, boot>>

\* The daemon is killed: nothing of shutdown() runs and the socket file
\* stays behind.
Killed ==
  /\ Alive
  /\ Ends("running", socketFile)
  /\ UNCHANGED <<signals, begun>>

\* One client and the requests it sends.
ClientLoad == [reqs |-> 2, open |-> 1, queries |-> Each({ <<"a">> }),
               counted |-> FALSE, clocked |-> FALSE, wire |-> <<>>]

InitClient == load = ClientLoad /\ InitDaemon

NextClient ==
  \/ Search
  \/ ConnectFails
  \/ \E r \in Arriving : Connected(r)
  \/ RequestTimeout
  \/ InvalidResponse
  \/ Poll
  \/ startServer
  \/ Killed
  \/ IdleExpires
  \/ \E i \in 1..closing : CloseSettles(i)
  \/ Tick
  \/ \E r \in Running : GetPage(r)
  \/ \E ok \in BOOLEAN : LaunchDone(ok)
  \/ \E r \in Running : LaunchFailed(r)
  \/ \E r \in Awaiting({"newPage"}), o \in {"ok", "noPage", "initScript"} :
        NewPageDone(r, o)
  \/ \E r \in Awaiting({"goto", "closing"}), o \in Outcomes : PageSettles(r, o)
  \/ \E r \in Running : Respond(r)

\* One client calling search() once, with a daemon that may be running, may
\* have exited, or may have been killed.
SpecClient == InitClient /\ [][NextClient]_vars

----------------------------------------------------------------------------
\* The client, stopAndWait() of lib/client.js.

\* stopAndWait() is called: query({query: '__STOP__'}) creates its
\* connection.
StopAndWait ==
  /\ client.pc = "idle"
  /\ client' = [client EXCEPT !.pc = "stopConnecting"]
  /\ ClientOnly /\ UNCHANGED <<ttl, boot>>

\* The connection of a query() of stopAndWait() fails, for the socket's
\* state or for a reason of the client's own: the catch returns, and so
\* does stopAndWait(), normally.
StopConnectFails ==
  /\ client.pc \in {"stopConnecting", "statusConnecting"}
  /\ \E e \in {connectError(socketFile, listening), "EACCES"} : e # "none"
  /\ client' = [client EXCEPT !.pc = "returned", !.outcome = "stopped"]
  /\ ClientOnly /\ UNCHANGED <<ttl, boot>>

\* The connection is made and the command written: the daemon handles it as
\* request r.
StopConnected(r) ==
  /\ client.pc \in {"stopConnecting", "statusConnecting"}
  /\ connectError(socketFile, listening) = "none"
  /\ Control(r, IF client.pc = "stopConnecting" THEN STOP ELSE STATUS)
  /\ client' = [client EXCEPT
                  !.pc = IF @ = "stopConnecting" THEN "stopAwait"
                         ELSE "statusAwait",
                  !.request = r]
  /\ UNCHANGED conn

\* query() rejects with the request written: its timer (3000 ms for
\* __STOP__, 500 ms for __STATUS__) fires before the response has come, or
\* the connection ends without one, the daemon having exited.  The catch
\* returns.
StopQueryRejects ==
  /\ client.pc \in {"stopAwait", "statusAwait"}
  /\ client' = [client EXCEPT !.pc = "returned", !.outcome = "stopped"]
  /\ ClientOnly /\ UNCHANGED <<ttl, boot>>

\* The head of the loop: another __STATUS__ query while maxWait has not
\* passed, the throw after it.
StopPoll ==
  /\ client.pc = "polling"
  /\ client' = IF client.elapsed < MAX_WAIT
                 THEN [client EXCEPT !.pc = "statusConnecting"]
                 ELSE [client EXCEPT !.pc = "returned",
                                     !.outcome = "Daemon failed to stop in time"]
  /\ ClientOnly /\ UNCHANGED <<ttl, boot>>

\* One client calling stopAndWait() on a daemon that is idle.
InitStop ==
  /\ load = [reqs |-> NumReq, open |-> 1, queries |-> Each({ <<"a">> }),
             counted |-> FALSE, clocked |-> FALSE, wire |-> <<>>]
  /\ InitDaemon

NextStop ==
  \/ StopAndWait
  \/ StopConnectFails
  \/ \E r \in Arriving : StopConnected(r)
  \/ StopQueryRejects
  \/ StopPoll
  \/ \E ok \in BOOLEAN : LaunchDone(ok)
  \/ \E r \in Running : Respond(r)
  \/ StopImmediate
  \/ \E i \in 1..closing : CloseSettles(i)
  \/ IdleExpires
  \/ Tick

\* One client calling stopAndWait() once, at any time in the daemon's life.
SpecStop == InitStop /\ [][NextStop]_vars

----------------------------------------------------------------------------
\* The daemon variant with a time-to-live on cache entries.

\* Two spellings of one key, and another key.
TtlQueries == { <<"a">>, <<"A">>, <<"b">> }

TtlDocs == 1..NumTtlDocs

ttlHas(c, k) == \E i \in 1..Len(c) : c[i].key = k

ttlEntry(c, k) == c[CHOOSE i \in 1..Len(c) : c[i].key = k]

getCached_NoExpiry(c, q, now) ==
  LET k == cacheKey(q)
  IN  IF ttlHas(c, k)
        THEN [hit |-> TRUE, markdown |-> ttlEntry(c, k).markdown]
        ELSE [hit |-> FALSE, markdown |-> EmptyMarkdown]

\* getCached(query) at time now: the entry's markdown while it is younger
\* than CACHE_TTL, null otherwise.
getCached(c, q, now) ==
  LET k == cacheKey(q)
  IN  IF ttlHas(c, k) /\ now - ttlEntry(c, k).time < CACHE_TTL
        THEN [hit |-> TRUE, markdown |-> ttlEntry(c, k).markdown]
        ELSE [hit |-> FALSE, markdown |-> EmptyMarkdown]

\* setCache(query, markdown) at time now: Map.set, which leaves an existing
\* key in its place, then the first key goes if the size is over the limit.
setCache(c, q, m, now) ==
  LET k == cacheKey(q)
      e == [key |-> k, markdown |-> m, time |-> now]
      c1 == IF ttlHas(c, k)
              THEN [i \in 1..Len(c) |-> IF c[i].key = k THEN e ELSE c[i]]
              ELSE Append(c, e)
  IN  IF Len(c1) > TTL_CACHE_MAX
        THEN SelectSeq(c1, LAMBDA x : x.key # c1[1].key)
        ELSE c1

\* Nothing of the main daemon or of the clients changes in a step of the
\* variant.
\* The variant's search(q) for request r, to its return on a cache hit or to
\* its first await.
TtlSearch(r, q) ==
  /\ ttl.reqs[r].pc = "idle"
  /\ \A s \in TtlRequests : s < r => ttl.reqs[s].pc # "idle"
  /\ Cardinality({s \in TtlRequests : ttl.reqs[s].pc = "retrieving"}) < load.open
  /\ LET cached == getCached(ttl.cache, q, ttl.now)
     IN  ttl' = [ttl EXCEPT
                   !.reqs[r] =
                     IF cached.hit
                       THEN [pc |-> "done", query |-> q,
                             markdown |-> cached.markdown, fromCache |-> TRUE]
                       ELSE [pc |-> "retrieving", query |-> q,
                             markdown |-> EmptyMarkdown, fromCache |-> FALSE]]
  /\ ClientOnly /\ UNCHANGED <<client, boot>>

\* The retrieval of request r ends with document m, or with none (m is
\* EmptyMarkdown: parseToMarkdown() returned null): search() stores a
\* document and returns.
TtlRetrieved(r, m) ==
  /\ ttl.reqs[r].pc = "retrieving"
  /\ LET q == ttl.reqs[r].query
         k == cacheKey(q)
     IN  ttl' = [ttl EXCEPT
                   !.reqs[r].pc = "done",
                   !.reqs[r].markdown = m,
                   !.cache = IF m # EmptyMarkdown
                               THEN setCache(@, q, m, ttl.now) ELSE @,
                   !.renewed =
                     IF /\ m # EmptyMarkdown
                        /\ ttlHas(ttl.cache, k)
                        /\ ~getCached(ttl.cache, q, ttl.now).hit
                        /\ ttlEntry(ttl.cache, k).markdown # m
                       THEN @ \cup {k} ELSE @]
  /\ ClientOnly /\ UNCHANGED <<client, boot>>

\* The retrieval of request r throws: handleQuery() answers with the error.
TtlThrows(r) ==
  /\ ttl.reqs[r].pc = "retrieving"
  /\ ttl' = [ttl EXCEPT !.reqs[r].pc = "failed"]
  /\ ClientOnly /\ UNCHANGED <<client, boot>>

\* Time passes on the variant's clock.
TtlTick ==
  /\ ttl.now < MaxNow
  /\ ttl' = [ttl EXCEPT !.now = @ + 1]
  /\ ClientOnly /\ UNCHANGED <<client, boot>>

\* The documents retrievals have yielded so far.
TtlSeen ==
  { ttl.reqs[r].markdown : r \in TtlRequests }
    \cup { ttl.cache[i].markdown : i \in 1..Len(ttl.cache) }

\* What a retrieval can yield: no document, one seen before, or a new one;
\* documents are numbered in the order they first appear.
TtlYields == { m \in TtlDocs \cup {EmptyMarkdown} :
                 m = EmptyMarkdown \/ m - 1 \in TtlSeen }

\* The variant daemon has started; the main daemon plays no part.
InitTtl == InitLife /\ profileExists

NextTtl ==
  \/ \E r \in TtlRequests, q \in TtlQueries : TtlSearch(r, q)
  \/ \E r \in TtlRequests, m \in TtlYields : TtlRetrieved(r, m)
  \/ \E r \in TtlRequests : TtlThrows(r)
  \/ TtlTick

\* The daemon variant alone, its requests overlapping in any way.
SpecTtl == InitTtl /\ [][NextTtl]_vars

----------------------------------------------------------------------------
\* Auto-start: the clients that find no daemon, the daemons they spawn, and
\* the socket path the daemons share.  Client c spawns daemon c.  The steps
\* of different processes interleave between any two system calls.

\* The daemons whose server is bound and listening.
Serving(b) == {d \in Daemons : b.procs[d] = "listening"}

\* lib/client.js search(q) is called by client c: query() creates its
\* connection.
BootSearch(c) ==
  /\ boot.clients[c] = "idle"
  /\ boot' = [boot EXCEPT !.clients[c] = "connecting"]
  /\ ClientOnly /\ UNCHANGED <<client, ttl>>

\* The connection fails with ENOENT, there being no file at SOCKET_PATH:
\* search() calls startDaemon(), which spawns a daemon and polls.
BootSpawn(c) ==
  /\ boot.clients[c] = "connecting"
  /\ boot.owner = NoDaemon
  /\ boot' = [boot EXCEPT !.clients[c] = "polling", !.procs[c] = "spawned"]
  /\ ClientOnly /\ UNCHANGED <<client, ttl>>

\* A connection of client c is made: the first query() of search(), which
\* is then served; a poll of startDaemon(), after which search() calls
\* query() again; or that second query().
BootConnected(c) ==
  /\ boot.clients[c] \in {"connecting", "polling", "querying"}
  /\ boot.owner # NoDaemon
  /\ boot' = [boot EXCEPT !.clients[c] = IF @ = "polling" THEN "querying"
                                         ELSE "served"]
  /\ ClientOnly /\ UNCHANGED <<client, ttl>>

\* search() throws: startDaemon() rejects with 'Daemon startup timeout', no
\* poll having connected in 10 s, or the second query() fails to connect.
BootThrows(c) ==
  /\ boot.clients[c] \in {"polling", "querying"}
  /\ boot.owner = NoDaemon
  /\ boot' = [boot EXCEPT !.clients[c] = "failed"]
  /\ ClientOnly /\ UNCHANGED <<client, ttl>>

\* daemon.js startServer(), `try { fs.unlinkSync(SOCKET_PATH) } catch { }`:
\* whatever file is at the path is removed.
BootUnlink(d) ==
  /\ boot.procs[d] = "spawned"
  /\ boot' = [boot EXCEPT !.procs[d] = "unlinked", !.owner = NoDaemon]
  /\ ClientOnly /\ UNCHANGED <<client, ttl>>

\* startServer(), server.listen(SOCKET_PATH): the bind creates the socket
\* file, or fails with EADDRINUSE on a file that is there, and the 'error'
\* handler calls process.exit(1).
BootListen(d) ==
  /\ boot.procs[d] = "unlinked"
  /\ boot' = IF boot.owner = NoDaemon
               THEN [boot EXCEPT !.procs[d] = "listening", !.owner = d]
               ELSE [boot EXCEPT !.procs[d] = "exited"]
  /\ ClientOnly /\ UNCHANGED <<client, ttl>>

\* shutdown() of a daemon that listens, on a stop request, a signal or the
\* idle timer: server.close(), unlinkSync(SOCKET_PATH), process.exit(0).
BootShutdown(d) ==
  /\ boot.procs[d] = "listening"
  /\ boot' = [boot EXCEPT !.procs[d] = "exited", !.owner = NoDaemon]
  /\ ClientOnly /\ UNCHANGED <<client, ttl>>

\* No daemon runs and there is no file at SOCKET_PATH: the state process.exit
\* leaves.
InitBoot ==
  /\ load = LifeLoad
  /\ boot = NoBoot
  /\ client = NoClient
  /\ ttl = NoTtl
  /\ conn = NoConn
  /\ proc = "exited"
  /\ listening = FALSE
  /\ socketFile = FALSE
  /\ idleTimer = NoTimer
  /\ immediates = <<>>
  /\ closing = 0
  /\ signals = 0
  /\ begun = "no"
  /\ quiet = 0
  /\ browserAtExit = "none"
  /\ clock = 0
  /\ activeTabs = 0
  /\ waitQueue = <<>>
  /\ pagePool = <<>>
  /\ cache = <<>>
  /\ cachedQuery = <<>>
  /\ browserContext = FALSE
  /\ browserLaunching = "null"
  /\ launchWaiters = <<>>
  /\ profileExists = TRUE
  /\ launches = 0
  /\ contexts = 0
  /\ pc = [r \in Requests |-> "idle"]
  /\ query = [r \in Requests |-> NoKey]
  /\ key = [r \in Requests |-> NoKey]
  /\ page = [r \in Requests |-> NoPage]
  /\ result = [r \in Requests |-> "none"]
  /\ response = [r \in Requests |-> NoResponse]
  /\ pageState = [p \in Pages |-> "none"]
  /\ runq = <<>>
  /\ slotReleases = [r \in Requests |-> 0]
  /\ pageReleases = [r \in Requests |-> 0]
  /\ relSince = <<>>
  /\ gotPage = [r \in Requests |-> "none"]
  /\ navigations = [r \in Requests |-> 0]
  /\ challenges = 0
  /\ overlap = FALSE
  /\ recency = <<>>
  /\ evicted = FALSE
  /\ promoted = FALSE

NextBoot ==
  \/ \E c \in Daemons : BootSearch(c)
  \/ \E c \in Daemons : BootSpawn(c)
  \/ \E c \in Daemons : BootConnected(c)
  \/ \E c \in Daemons : BootThrows(c)
  \/ \E d \in Daemons : BootUnlink(d)
  \/ \E d \in Daemons : BootListen(d)
  \/ \E d \in Daemons : BootShutdown(d)

\* Clients that call search() with no daemon running.
SpecBoot == InitBoot /\ [][NextBoot]_vars

----------------------------------------------------------------------------
\* Properties.

Holders == {r \in Requests : HoldsSlot(r)}

Waiting == {r \in Requests : pc[r] = "waiting"}

InQueue(r) == \E i \in 1..Len(waitQueue) : waitQueue[i] = r

InPool(p) == \E i \in 1..Len(pagePool) : pagePool[i] = p

\* Request r calls releaseSlot() in this step.
Releases(r) == slotReleases'[r] = slotReleases[r] + 1

\* Request r's acquireSlot() call is made in this step.
Acquires(r) == pc[r] = "idle" /\ pc'[r] \in {"granted", "waiting"}

\* Request r's getPage() call is made in this step.
CallsGetPage(r) == pc[r] = "granted" /\ pc'[r] # "granted"

\* C1: in every reachable state 0 <= activeTabs <= MAX_CONCURRENT.
C1_ActiveTabsBounded == activeTabs >= 0 /\ activeTabs <= MAX_CONCURRENT

\* All slots are taken, requests are queued, and a slot has been released
\* and handed on.
C1_Witness ==
  /\ activeTabs = MAX_CONCURRENT
  /\ waitQueue # <<>>
  /\ \E r \in Requests : pc[r] = "respond" /\ slotReleases[r] = 1

\* C2: acquireSlot() grants at once whenever activeTabs < MAX_CONCURRENT and
\* suspends the caller only when activeTabs = MAX_CONCURRENT; the suspended
\* caller is appended to waitQueue, stays queued exactly once while it waits,
\* and leaves the wait only by being granted a slot.
C2_AcquireSlot ==
  /\ [](\A r \in Requests :
          (pc[r] = "waiting") <=>
            (Cardinality({i \in 1..Len(waitQueue) : waitQueue[i] = r}) = 1))
  /\ [](\A i \in 1..Len(waitQueue) : pc[waitQueue[i]] = "waiting")
  /\ [][\A r \in Requests :
          /\ Acquires(r) =>
               IF activeTabs < MAX_CONCURRENT
                 THEN /\ pc'[r] = "granted"
                      /\ activeTabs' = activeTabs + 1
                      /\ waitQueue' = waitQueue
                 ELSE /\ activeTabs = MAX_CONCURRENT
                      /\ pc'[r] = "waiting"
                      /\ activeTabs' = activeTabs
                      /\ waitQueue' = Append(waitQueue, r)
          /\ pc[r] = "waiting" => pc'[r] \in {"waiting", "granted"}]_vars

\* Two callers are suspended behind MAX_CONCURRENT granted ones.
C2_Witness ==
  /\ activeTabs = MAX_CONCURRENT
  /\ Cardinality(Holders) = MAX_CONCURRENT
  /\ Len(waitQueue) >= 2

\* C3: of MAX_CONCURRENT + N concurrent cache-missing requests exactly
\* MAX_CONCURRENT hold a slot while any is queued, and the queued ones are
\* admitted one per released slot, each the earliest arrival still waiting
\* (requests are numbered in arrival order).
C3_FifoAdmission ==
  /\ [](waitQueue # <<>> => Cardinality(Holders) = MAX_CONCURRENT)
  /\ [][\A r \in Requests :
          (pc[r] = "waiting" /\ pc'[r] # "waiting") =>
             /\ pc'[r] = "granted"
             /\ \A w \in Waiting : r <= w
             /\ \A w \in Waiting \ {r} : pc'[w] = "waiting"
             /\ Cardinality({s \in Requests : Releases(s)}) = 1]_vars

\* A queued request has been admitted by a release while a later one still
\* waits.
C3_Witness ==
  \E r \in Requests :
    /\ pc[r] = "granted"
    /\ waitQueue # <<>>
    /\ \A i \in 1..Len(waitQueue) : r < waitQueue[i]
    /\ \E s \in Requests : pc[s] = "respond" /\ slotReleases[s] = 1

\* C4: releaseSlot() with waiters wakes exactly the oldest one and leaves
\* activeTabs unchanged, without waiters it decrements activeTabs by one; the
\* woken waiter counts as a holder from the hand-off on, so an arriving
\* request is granted a slot at once only when nobody is queued.
C4_ReleaseSlot ==
  /\ [](activeTabs = Cardinality(Holders))
  /\ [][\A r \in Requests :
          /\ Releases(r) =>
               IF waitQueue # <<>>
                 THEN /\ activeTabs' = activeTabs
                      /\ waitQueue' = Tail(waitQueue)
                      /\ pc'[Head(waitQueue)] = "granted"
                      /\ \A w \in Waiting \ {Head(waitQueue)} :
                           pc'[w] = "waiting"
                 ELSE /\ activeTabs' = activeTabs - 1
                      /\ waitQueue' = waitQueue
          /\ (pc[r] = "idle" /\ pc'[r] = "granted") => waitQueue = <<>>]_vars

\* A release has just handed its slot to a waiter that has not resumed yet.
C4_Witness ==
  \E r, w \in Requests :
    /\ pc[r] = "respond" /\ slotReleases[r] = 1
    /\ pc[w] = "granted" /\ w > MAX_CONCURRENT
    /\ runq = <<w, r>>
    /\ activeTabs = MAX_CONCURRENT

\* C5: a cache-missing search that has returned (with a result or an error,
\* on any path) has released its slot exactly once and, if getPage() gave it
\* a page, has pooled or closed that page exactly once; before it returns it
\* has released neither.
C5_ReleasedOnce ==
  \A r \in Requests :
    /\ (pc[r] = "respond" /\ result[r] \in {"ok", "err"}) =>
          /\ slotReleases[r] = 1
          /\ pageReleases[r] = IF gotPage[r] = "none" THEN 0 ELSE 1
    /\ InSearch(r) => slotReleases[r] = 0 /\ pageReleases[r] = 0

\* A retrieval that failed on a page checked out of the pool has returned.
C5_Witness ==
  \E r \in Requests :
    /\ pc[r] = "respond" /\ result[r] = "err" /\ gotPage[r] = "pooled"
    /\ slotReleases[r] = 1 /\ pageReleases[r] = 1

\* C6: a page handle is held by at most one in-flight retrieval, and a
\* handle in pagePool is held by none.
C6_ExclusivePage ==
  /\ \A r, s \in Requests :
       (r # s /\ page[r] # NoPage) => page[r] # page[s]
  /\ \A r \in Requests : page[r] # NoPage => ~InPool(page[r])

\* Two retrievals hold pages, one of them reused, while the pool is not
\* empty.
C6_Witness ==
  \E r, s \in Requests :
    /\ r # s
    /\ page[r] # NoPage /\ page[s] # NoPage
    /\ gotPage[r] = "pooled"
    /\ pagePool # <<>>

\* C7: a page whose retrieval ended in a navigation failure, on a CAPTCHA
\* page or with the page crashed is not in the pool and is not handed to a
\* later checkout.
C7_OnlyUsablePooled ==
  /\ \A i \in 1..Len(pagePool) : pageState[pagePool[i]] = "ok"
  /\ \A r \in Requests : page[r] # NoPage => pageState[page[r]] = "ok"

\* C8 as claimed: every page released since the previous getPage() call is
\* the handle the next getPage() call returns, with no page constructed; and
\* the pool never exceeds MAX_POOL_SIZE.
C8_NextCheckoutReturnsReleased ==
  /\ [](Len(pagePool) <= MAX_POOL_SIZE)
  /\ [][\A r \in Requests :
          CallsGetPage(r) =>
            \A i \in 1..Len(relSince) :
              /\ page'[r] = relSince[i]
              /\ pageState' = pageState]_vars

\* C8 amended: a getPage() call that finds pages in the pool constructs none
\* and returns the most recently released one (the released page itself when
\* no other page was released since); a release pushes the page iff the pool
\* is below MAX_POOL_SIZE and otherwise closes it, so the pool never exceeds
\* MAX_POOL_SIZE.
C8_CheckoutReturnsLastReleased ==
  /\ [](Len(pagePool) <= MAX_POOL_SIZE)
  /\ [][\A r \in Requests :
          /\ (CallsGetPage(r) /\ relSince # <<>>) =>
                /\ page'[r] = relSince[Len(relSince)]
                /\ pc'[r] = "goto"
                /\ pageState' = pageState
                /\ pagePool' = SubSeq(pagePool, 1, Len(pagePool) - 1)
          /\ (pageReleases'[r] = pageReleases[r] + 1) =>
                IF pc[r] = "closing"
                  THEN pagePool' = pagePool /\ pageState'[page[r]] = "closed"
                  ELSE /\ Len(pagePool) < MAX_POOL_SIZE
                       /\ pagePool' = Append(pagePool, page[r])
          /\ (pc[r] # "closing" /\ pc'[r] = "closing") =>
                Len(pagePool) = MAX_POOL_SIZE]_vars

\* A request runs on a reused page that was released after another page
\* still in the pool.
C8_Witness ==
  \E r \in Requests :
    /\ pc[r] = "goto"
    /\ gotPage[r] = "pooled"
    /\ relSince = <<>>
    /\ pagePool # <<>>

\* C9: the cache never holds more than CACHE_MAX entries.
C9_CacheBounded == Len(cache) <= CACHE_MAX

\* The cache is full after an eviction, with retrievals having overlapped.
C9_Witness == Len(cache) = CACHE_MAX /\ evicted /\ overlap

\* The least recently accessed of the cached keys.
LruKey ==
  LET cached == SelectSeq(recency, LAMBDA k : cacheHas(cache, k))
  IN  cached[1]

KeySet(c) == {c[i].key : i \in 1..Len(c)}

\* C10: as long as searches have not overlapped, an insertion into a full
\* cache evicts exactly one entry, the one least recently accessed (inserted
\* or hit), and any other insertion evicts none; a cache hit makes its key
\* the most recently used and keeps the order of the others.
C10_LruEviction ==
  [][\A r \in Requests :
       /\ (pc[r] = "idle" /\ result'[r] = "hit") =>
             /\ cacheKeys(cache') = Touch(cacheKeys(cache), key'[r])
             /\ cacheGet(cache', key'[r]) = cacheGet(cache, key'[r])
       /\ (~overlap' /\ result[r] = "none" /\ result'[r] = "ok") =>
             IF Len(cache) = CACHE_MAX /\ ~cacheHas(cache, key[r])
               THEN /\ KeySet(cache) \ KeySet(cache') = {LruKey}
                    /\ cacheKeys(cache') =
                         Append(Tail(cacheKeys(cache)), key[r])
               ELSE /\ KeySet(cache) \subseteq KeySet(cache')
                    /\ cacheHas(cache', key[r])]_vars

\* Without overlap, a hit has reordered the cache and a later insertion has
\* evicted an entry.
C10_Witness ==
  /\ ~overlap /\ promoted /\ evicted
  /\ \E r \in Requests : pc[r] = "respond" /\ result[r] = "ok"

\* Letters that differ at most in case.
SameLetter(a, b) ==
  a = b \/ {a, b} \in { {"a", "A"}, {"b", "B"}, {"c", "C"} }

\* s without its leading and trailing blanks.
Inner(s) ==
  LET solid == {i \in 1..Len(s) : s[i] # " "}
  IN  IF solid = {} THEN <<>>
      ELSE SubSeq(s, CHOOSE i \in solid : \A j \in solid : i <= j,
                     CHOOSE i \in solid : \A j \in solid : i >= j)

\* Queries that differ only in letter case or in leading/trailing blanks.
Variant(q1, q2) ==
  /\ Len(Inner(q1)) = Len(Inner(q2))
  /\ \A i \in 1..Len(Inner(q1)) : SameLetter(Inner(q1)[i], Inner(q2)[i])

\* C11: a search for a query that differs only in letter case or in
\* leading/trailing blanks from the query that stored a cache entry is a
\* cache hit returning that entry's markdown; and queries that differ only
\* so have the same cache key.
C11_VariantsShareKey ==
  /\ [](\A q1, q2 \in Queries : Variant(q1, q2) => cacheKey(q1) = cacheKey(q2))
  /\ [][\A r \in Requests, q \in Queries :
          Arrive(r, q) =>
            \A i \in 1..Len(cache) :
              Variant(cachedQuery[i], q) =>
                /\ result'[r] = "hit"
                /\ response'[r] =
                     [markdown |-> cache[i].markdown, error |-> "none"]]_vars

\* A query is answered from the entry a differently spelled query stored.
C11_Witness ==
  \E r \in Requests, i \in 1..Len(cache) :
    /\ pc[r] = "respond" /\ result[r] = "hit"
    /\ cache[i].key = key[r]
    /\ cachedQuery[i] # query[r]
    /\ query[r] # key[r]
    /\ response[r].markdown = cache[i].markdown

\* Request r's search() call is made in this step.
Searches(r) == pc[r] = "idle" /\ pc'[r] # "idle"

C13_FailuresNotCached ==
  /\ [](\A i \in 1..Len(cache) : cache[i].markdown # EmptyMarkdown)
  /\ [][\A r \in Requests :
          /\ (result[r] = "none" /\ result'[r] = "err") => cache' = cache
          /\ (pc[r] = "goto" /\ pc'[r] # "goto") =>
                /\ \A o \in Outcomes :
                     (o.kind # "parsed" /\ PageSettles(r, o)) =>
                        result'[r] = "err"
                /\ PageSettles(r, [kind |-> "parsed",
                                   markdown |-> EmptyMarkdown]) =>
                     /\ result'[r] = "err"
                     /\ response'[r].error = "parse"
                     /\ response'[r].markdown = EmptyMarkdown]_vars

\* An empty parser result has been answered with an error while the cache
\* holds an entry.
C13_Witness ==
  \E r \in Requests :
    /\ pc[r] = "respond" /\ result[r] = "err" /\ response[r].error = "parse"
    /\ cache # <<>>

\* C14 as claimed: a CAPTCHA detection that follows ChallengeThreshold
\* consecutive ones tears the browser down for a relaunch, is answered with
\* a cooldown error and resets the count of consecutive detections.
C14_EscalatesAtThreshold ==
  [][\A r \in Requests :
       (/\ PageSettles(r, [kind |-> "captcha", markdown |-> EmptyMarkdown])
        /\ pc[r] = "goto"
        /\ challenges >= ChallengeThreshold) =>
          /\ ~browserContext'
          /\ response'[r].error = "cooldown"
          /\ challenges' = 0]_vars

\* C16: a retrieval that finds a CAPTCHA is answered with the CAPTCHA error
\* and caches nothing, whatever the number of detections before it; and a
\* cache-missing request navigates exactly once if it got a page, never if
\* it did not, so no query is navigated to a second time.
C16_ChallengeNotRetried ==
  /\ [](\A r \in Requests :
          /\ navigations[r] <= 1
          /\ (pc[r] = "respond" /\ result[r] \in {"ok", "err"}) =>
                navigations[r] = IF gotPage[r] = "none" THEN 0 ELSE 1)
  /\ [][\A r \in Requests :
          (/\ PageSettles(r, [kind |-> "captcha", markdown |-> EmptyMarkdown])
           /\ pc[r] = "goto") =>
             /\ result'[r] = "err"
             /\ response'[r] = [markdown |-> EmptyMarkdown, error |-> "captcha"]
             /\ cache' = cache
             /\ navigations'[r] = 1
             /\ pc'[r] \in {"respond", "closing"}]_vars

\* A request that found a CAPTCHA on its one navigation has been answered
\* with the error, the cache still holding an earlier result.
C16_Witness ==
  \E r \in Requests :
    /\ pc[r] = "respond" /\ response[r].error = "captcha"
    /\ navigations[r] = 1
    /\ cache # <<>>

\* handleRequest() is called for request r: a search or a control command.
Handles(r) == pc[r] = "idle" /\ pc'[r] # "idle"

\* C17: every handled request (search, __STATUS__, __STOP__) rearms the idle
\* timer to the full interval; the idle shutdown fires only when a full
\* interval has passed since the last request; and once a full interval has
\* passed with no request the timer is due, its firing calls shutdown(), and
\* no more time passes before it does.
C17_RequestsRearmIdleTimer ==
  /\ [](Alive => /\ quiet <= IDLE_TIMEOUT
                 /\ (quiet = IDLE_TIMEOUT /\ begun = "no" => idleTimer = 0))
  /\ [][\A r \in Requests : Handles(r) => idleTimer' = IDLE_TIMEOUT]_vars
  /\ [][IdleExpires =>
          /\ quiet = IDLE_TIMEOUT
          /\ (proc' = "exited" \/ closing' = closing + 1)]_vars

\* The daemon has answered a request, then sat idle for the interval and shut
\* down on the timer.
C17_Witness ==
  /\ proc = "exited"
  /\ begun = "idle"
  /\ \E r \in Requests : pc[r] = "done"

\* C18: when the shutdown() scheduled by a __STOP__ request starts, the
\* request's response has been written; the process never exits with a
\* __STOP__ request unanswered; and once the process has exited the socket
\* file does not exist.
C18_StopAnsweredBeforeShutdown ==
  /\ [](proc = "exited" => ~socketFile)
  /\ [][StopImmediate => pc[Head(immediates)] = "done"]_vars
  /\ [][Alive /\ proc' = "exited" =>
          \A r \in Requests : query[r] # STOP]_vars

\* The daemon has exited on a __STOP__ request.
C18_Witness ==
  /\ proc = "exited"
  /\ begun = "stop"
  /\ ~socketFile
  /\ \E r \in Requests : pc[r] = "done"

\* C19: a shutdown triggered again while one is in progress applies no step
\* twice -- browserContext.close() is pending at most once -- and the
\* process exits with the browser closed, or never launched.
C19_ShutdownIdempotent ==
  /\ closing <= 1
  /\ proc = "exited" => browserAtExit \in {"none", "closed"}

\* C20: the socket file exists exactly while the daemon runs, accepts
\* connections and has not begun to shut down.
C20_SocketIffAccepting ==
  socketFile <=> (Alive /\ listening /\ begun = "no")

\* C21: at most one launchPersistentContext() call is pending and at most
\* one browser context exists; a launch is pending exactly while the stored
\* promise is, and never beside a context; and a request that needs the
\* browser while a launch is pending starts none of its own but awaits the
\* pending one.
C21_SingleLaunch ==
  /\ [](/\ launches \in {0, 1}
        /\ contexts \in {0, 1}
        /\ (launches = 1) = (browserLaunching = "pending")
        /\ (contexts = 1) = browserContext
        /\ browserContext => launches = 0 /\ launchWaiters = <<>>)
  /\ [][\A r \in Requests :
          (/\ pc[r] = "granted"
           /\ pc'[r] # "granted"
           /\ browserLaunching = "pending") =>
             /\ launches' = launches
             /\ browserLaunching' = "pending"
             /\ pc'[r] = "launchWait"
             /\ launchWaiters' = Append(launchWaiters, r)]_vars

\* Two requests await the launch the warm-up started.
C21_Witness ==
  /\ launches = 1
  /\ Len(launchWaiters) >= 2
  /\ contexts = 0

\* C22: a __STATUS__ request is answered in the step that handles it with
\* status "running", an uptime that is not negative and the number of cache
\* entries (0 when no search has started yet), also while the browser is
\* still launching; activeTabs, waitQueue, pagePool, the cache and the
\* browser are as before; browser is "connected" exactly when the browser
\* context exists.
C22_StatusAnswered ==
  [][\A r \in Requests :
       (pc[r] = "idle" /\ pc'[r] = "respond" /\ result'[r] = "status") =>
          /\ response'[r].status = "running"
          /\ response'[r].uptime >= 0
          /\ response'[r].uptime = clock
          /\ response'[r].cacheSize = Len(cache)
          /\ (\A s \in Requests : pc[s] = "idle") => response'[r].cacheSize = 0
          /\ (response'[r].browser = "connected") = browserContext
          /\ UNCHANGED <<activeTabs, waitQueue, pagePool, cache>>
          /\ UNCHANGED browserVars]_vars

C22_Witness ==
  \E r \in Requests :
    /\ pc[r] = "respond" /\ result[r] = "status"
    /\ browserLaunching = "pending"
    /\ response[r].browser = "initializing"
    /\ response[r].uptime > 0

\* The first newline-terminated message of text w, <<>> when w has no newline.
FirstMessage(w) ==
  IF \E i \in 1..Len(w) : w[i] = Newline
    THEN SubSeq(w, 1, (CHOOSE i \in 1..Len(w) :
                         w[i] = Newline /\ \A j \in 1..(i - 1) : w[j] # Newline) - 1)
    ELSE <<>>

HasNewline(w) == \E i \in 1..Len(w) : w[i] = Newline

\* C23: on a connection nothing is parsed or answered before a newline has
\* been received, in however many chunks; the message handled is the first
\* newline-terminated one; at most one response is written, and the
\* connection is ended with it; bytes received once a message has been taken
\* are buffered and change nothing else.
C23_OneFramedRequest ==
  /\ [](/\ ~HasNewline(conn.buffer) =>
             ~conn.processing /\ conn.request = NoReq /\ conn.written = <<>>
             /\ ~conn.ended
        /\ conn.buffer = SubSeq(load.wire, 1, conn.sent)
        /\ conn.processing =>
             (conn.request # NoReq) = ~JSONparse(FirstMessage(load.wire)).throws
        /\ Len(conn.written) <= 1
        /\ Len(conn.written) = 1 => conn.ended
        /\ conn.ended => conn.processing)
  /\ [][/\ (conn.request # NoReq /\ Alive') => conn'.request = conn.request
        /\ conn.ended => (Alive' => conn'.written = conn.written /\ conn'.ended)
        /\ (conn.processing /\ conn'.sent > conn.sent) =>
             /\ conn' = [conn EXCEPT !.buffer = conn'.buffer,
                                     !.sent = conn'.sent]
             /\ UNCHANGED <<pc, query, key, result, response, runq,
                            idleTimer, quiet, lifeRest, clock>>
             /\ UNCHANGED searchVars]_vars

C23_Witness ==
  /\ conn.ended /\ Len(conn.written) = 1 /\ conn.request # NoReq
  /\ conn.sent = Len(load.wire)
  /\ Len(conn.buffer) > indexOf(conn.buffer, Newline)
  /\ pc[conn.request] = "done"

\* The connection's request text is malformed: its first message is not
\* JSON, or is JSON whose query is not a string.
Malformed(w) ==
  \/ JSONparse(FirstMessage(w)).throws
  \/ InvalidRequest(JSONparse(FirstMessage(w)))

\* C24: a malformed request is answered with an error response and the
\* connection is ended, and from its arrival to that answer the cache,
\* activeTabs, waitQueue, pagePool and the idle timer are not changed by it.
C24_MalformedChangesNothing ==
  /\ [](conn.ended /\ Malformed(load.wire) =>
          conn.written \in {<<"internal">>, <<"invalid">>})
  /\ [][(/\ Malformed(load.wire)
         /\ ~conn.ended
         /\ conn'.processing
         /\ conn' # conn) =>
           UNCHANGED <<cache, activeTabs, waitQueue, pagePool, idleTimer>>]_vars

\* The client's connectivity errors.
Unreachable == {"ENOENT", "ECONNREFUSED"}

\* C25: search() spawns the daemon at most once, and only when its first
\* query() failed with ENOENT or ECONNREFUSED, which always spawns it; it
\* then polls until a connection succeeds, when it calls query() a second
\* and last time, or until the deadline has passed, when it throws; what the
\* second query() returns or throws is what search() returns or throws.
C25_SpawnOnceRetryOnce ==
  /\ [](/\ client.spawns <= 1 /\ client.queries <= 2
        /\ client.spawns = 1 => client.first \in Unreachable
        /\ client.queries = 2 => client.spawns = 1
        /\ client.elapsed <= STARTUP_TIMEOUT + 1
        /\ client.outcome = "Daemon startup timeout" =>
             client.queries = 1 /\ client.spawns = 1 /\ client.pc = "returned")
  /\ [][/\ (client.pc = "connecting" /\ client.queries = 1
            /\ client'.first \in Unreachable) =>
              client'.pc = "startup" /\ client'.spawns = 1
        /\ (client.pc = "startup" /\ client'.child = client.child
            /\ client' # client) =>
              \/ /\ connectError(socketFile, listening) = "none"
                 /\ client.elapsed <= STARTUP_TIMEOUT
                 /\ client'.pc = "connecting" /\ client'.queries = 2
              \/ /\ client.elapsed > STARTUP_TIMEOUT
                 /\ client'.pc = "returned"
                 /\ client'.outcome = "Daemon startup timeout"
              \/ /\ connectError(socketFile, listening) # "none"
                 /\ client'.pc = "startup"
                 /\ client'.elapsed = client.elapsed + 1
        /\ (client.queries = 2 /\ client'.pc # client.pc) =>
              /\ client'.pc \in {"awaiting", "returned"}
              /\ client'.spawns = 1 /\ client'.queries = 2
        /\ client.pc = "returned" =>
              [client' EXCEPT !.child = client.child] = client]_vars

C25_Witness ==
  /\ client.pc = "returned" /\ client.queries = 2 /\ client.spawns = 1
  /\ client.first = "ECONNREFUSED" /\ client.outcome = "ok"

\* C26: only ENOENT and ECONNREFUSED make search() spawn a daemon: a
\* response of the daemon, also one reporting an error, a request timeout,
\* a response that does not parse and any other connection error end
\* search() with that result, with no spawn and no further query().
C26_SpawnOnlyWhenUnreachable ==
  /\ [](client.spawns >= 1 => client.first \in Unreachable)
  /\ [][/\ (client.pc = "awaiting" /\ client'.pc # "awaiting") =>
              /\ client'.pc = "returned"
              /\ client'.outcome \in {"ok", "hit", "err", "Request timeout",
                                      "Invalid daemon response"}
              /\ client'.spawns = client.spawns
              /\ client'.queries = client.queries
        /\ (client.pc = "connecting" /\ client'.pc # "connecting"
            /\ client'.first \notin Unreachable) =>
              /\ client'.pc \in {"awaiting", "returned"}
              /\ client'.spawns = client.spawns
              /\ client'.queries = client.queries]_vars

C26_Witness ==
  /\ client.pc = "returned" /\ client.outcome = "err"
  /\ client.first = "err" /\ client.spawns = 0 /\ client.queries = 1

\* C27: no retrieval is aborted by a step that ran out of time: a request
\* whose page.goto() did not finish within NAV_TIMEOUT still has its page
\* extracted and parsed, so it is never answered with the navigation's
\* error.
C27_TimeoutNeverAborts ==
  \A r \in Requests : pc[r] = "respond" => response[r].error # "nav"

\* C28: an exception in a retrieval costs that request only: the daemon
\* keeps running and listening, the request that failed has given back its
\* slot when it is answered, and no later retrieval is made to fail by it,
\* that is, none navigates on a page an earlier retrieval left crashed.
C28_ExceptionsIsolated ==
  /\ Alive /\ listening
  /\ \A r \in Requests :
       /\ (pc[r] = "respond" /\ result[r] = "err") => slotReleases[r] = 1
       /\ pc[r] = "goto" => pageState[page[r]] # "crashed"

\* C29: when the client of a request has dropped its connection, that changes
\* nothing of the daemon; the retrieval goes on as any other: on success it
\* stores its result in the cache, and when it returns it has released its
\* slot and its page; its response is then not written, the daemon stays up
\* (it never crashes) and no other request, nor activeTabs, waitQueue,
\* pagePool or the cache, is touched by the failed write.
C29_DisconnectHarmless ==
  /\ [](proc # "crashed")
  /\ [][/\ (~conn.gone /\ conn'.gone) =>
              /\ UNCHANGED <<pc, query, key, result, response, runq, idleTimer,
                             lifeRest>>
              /\ UNCHANGED searchVars
        /\ (conn.gone /\ conn.request # NoReq /\ Alive') =>
              LET r == conn.request
              IN  /\ (pc[r] = "goto" /\ result'[r] = "ok") =>
                        cacheHas(cache', key[r])
                  /\ (pc[r] # "respond" /\ pc'[r] = "respond") =>
                        /\ slotReleases'[r] = 1
                        /\ pageReleases'[r] =
                             IF gotPage'[r] = "none" THEN 0 ELSE 1
                  /\ (pc[r] = "respond" /\ pc'[r] = "done") =>
                        /\ conn'.written = conn.written /\ conn'.ended
                        /\ \A s \in Requests \ {r} :
                             /\ pc'[s] = pc[s]
                             /\ result'[s] = result[s]
                             /\ response'[s] = response[s]
                        /\ UNCHANGED <<activeTabs, waitQueue, pagePool,
                                       cache>>]_vars

\* The client left while its retrieval was in flight; the retrieval has
\* stored its result and returned, and nothing was written.
C29_Witness ==
  /\ conn.gone /\ conn.ended /\ conn.written = <<>>
  /\ Alive
  /\ pc[conn.request] = "done"
  /\ \A s \in Requests \ {conn.request} : pc[s] = "idle"
  /\ cache # <<>>
  /\ activeTabs = 0

\* C30: with every browser call settling and no shutdown, there comes a
\* time from which no request waits in the queue or is in flight; a request
\* leaves the queue only by being granted a slot and is finished only by
\* being answered, after which it stays answered.  So every waiter is
\* eventually granted a slot and every accepted request is eventually
\* answered, MAX_CONCURRENT distinct queries sent at once among them.
C30_EveryRequestAnswered ==
  /\ <>[](waitQueue = <<>> /\ \A r \in Requests : ~Open(r))
  /\ [][\A r \in Requests :
          /\ (pc[r] = "waiting" /\ pc'[r] # "waiting") => pc'[r] = "granted"
          /\ (Open(r) /\ ~Open(r)') => pc[r] = "respond" /\ pc'[r] = "done"
          /\ pc[r] = "done" => pc'[r] = "done"]_vars

\* MAX_CONCURRENT retrievals for distinct queries are in flight and a
\* further request waits in the queue.
C30_Witness ==
  /\ \A r \in 1..MAX_CONCURRENT : InSearch(r) /\ pc[r] # "waiting"
  /\ \A r, s \in 1..MAX_CONCURRENT : r # s => query[r] # query[s]
  /\ \E r \in Requests : pc[r] = "waiting"

\* C31: in the variant a lookup that finds an entry older than CACHE_TTL is
\* a miss: a retrieval is made and fromCache is false; a retrieval that
\* yields a document stores it under its key with the current time, over
\* the entry that was there; and a lookup that finds an entry younger than
\* CACHE_TTL returns that entry's document with fromCache true.
C31_ExpiredEntryReplaced ==
  [][\A r \in TtlRequests :
       LET k == cacheKey(ttl'.reqs[r].query)
       IN  /\ (ttl.reqs[r].pc = "idle" /\ ttl'.reqs[r].pc # "idle"
               /\ ttlHas(ttl.cache, k)) =>
                 LET e == ttlEntry(ttl.cache, k)
                 IN  /\ ttl.now - e.time > CACHE_TTL =>
                           /\ ttl'.reqs[r].pc = "retrieving"
                           /\ ~ttl'.reqs[r].fromCache
                     /\ ttl.now - e.time < CACHE_TTL =>
                           /\ ttl'.reqs[r].pc = "done"
                           /\ ttl'.reqs[r].fromCache
                           /\ ttl'.reqs[r].markdown = e.markdown
           /\ (ttl.reqs[r].pc = "retrieving" /\ ttl'.reqs[r].pc = "done"
               /\ ttl'.reqs[r].markdown # EmptyMarkdown) =>
                 /\ ~ttl'.reqs[r].fromCache
                 /\ ttlHas(ttl'.cache, k)
                 /\ ttlEntry(ttl'.cache, k) =
                      [key |-> k, markdown |-> ttl'.reqs[r].markdown,
                       time |-> ttl.now]
                 /\ getCached(ttl'.cache, ttl.reqs[r].query, ttl.now) =
                      [hit |-> TRUE, markdown |-> ttl'.reqs[r].markdown]]_vars

\* An expired entry has been replaced by another document, and a later
\* request got that document from the cache.
C31_Witness ==
  \E r \in TtlRequests :
    /\ ttl.reqs[r].pc = "done" /\ ttl.reqs[r].fromCache
    /\ cacheKey(ttl.reqs[r].query) \in ttl.renewed
    /\ ttlHas(ttl.cache, cacheKey(ttl.reqs[r].query))
    /\ ttlEntry(ttl.cache, cacheKey(ttl.reqs[r].query)).markdown
         = ttl.reqs[r].markdown
    /\ \E s \in TtlRequests : s < r /\ ~ttl.reqs[s].fromCache
                              /\ ttl.reqs[s].markdown = ttl.reqs[r].markdown

\* C32: stopAndWait() returns normally only when the daemon cannot be
\* reached on the socket; with the daemon still answering when maxWait has
\* passed, it throws 'Daemon failed to stop in time'.
C32_StopAndWaitSeesDaemonGone ==
  [][/\ (InQuery(client) /\ client'.pc = "returned"
         /\ client'.outcome = "stopped") =>
           connectError(socketFile', listening') # "none"
     /\ (client.pc = "polling" /\ client.elapsed >= MAX_WAIT
         /\ client' # client) =>
           /\ client'.pc = "returned"
           /\ client'.outcome = "Daemon failed to stop in time"]_vars

\* The pages the daemon has a handle on: those in pagePool, those a retrieval
\* has checked out, and those getPage() is constructing.
LiveHandles ==
  Len(pagePool)
  + Cardinality({r \in Requests : page[r] # NoPage})
  + Cardinality({r \in Requests : pc[r] = "newPage"})

\* C33: the pages in pagePool, checked out and under construction are never
\* more than MAX_CONCURRENT, and no retrieval finds the pool at capacity when
\* it releases its page (the finally block never closes a page).
C33_HandlesWithinLimit ==
  /\ LiveHandles <= MAX_CONCURRENT
  /\ \A r \in Requests : pc[r] # "closing"

\* A retrieval found the pool empty and is constructing its page, others
\* have released theirs since, and the handles are at the limit.
C33_Witness ==
  /\ \E r \in Requests : pc[r] = "newPage"
  /\ Len(pagePool) > 0
  /\ LiveHandles = MAX_CONCURRENT

\* C34: the idle timer never starts shutdown() while a request is waiting
\* in waitQueue or a retrieval is in flight.
C34_IdleOnlyWhenQuiet ==
  [][(begun = "no" /\ begun' = "idle") =>
       /\ waitQueue = <<>>
       /\ \A r \in Requests : ~Open(r)]_vars

\* C36: when a retrieval stores its result under a key that a concurrent
\* retrieval for the same key has stored meanwhile, the key becomes the most
\* recently used: it is the last the cache would evict.
C36_SecondWriteIsNewest ==
  [][\A r \in Requests :
       (/\ result[r] = "none" /\ result'[r] = "ok"
        /\ cacheHas(cache, key[r])) =>
          cacheKeys(cache')[Len(cache')] = key[r]]_vars

\* C37: a request that needs the browser after an initialization attempt
\* has failed starts a new attempt: its initContext() call never returns
\* the rejected promise of the earlier attempt.
C37_FreshAttemptAfterFailure ==
  [][\A r \in Requests :
       (CallsGetPage(r) /\ pagePool = <<>> /\ ~browserContext) =>
          /\ browserLaunching # "rejected"
          /\ initContext(browserContext, browserLaunching) = "launch" =>
               launches' = launches + 1]_vars

\* C38: every page ctx.newPage() has created is in pagePool, held by exactly
\* one retrieval in flight, or closed; so a page whose addInitScript() call
\* fails is closed by the time the failure reaches search().
C38_EveryPageAccounted ==
  \A p \in Pages :
    pageState[p] # "none" =>
      \/ pageState[p] = "closed"
      \/ (\E i \in 1..Len(pagePool) : pagePool[i] = p)
      \/ Cardinality({r \in Requests : Open(r) /\ page[r] = p}) = 1

\* C35: at most one daemon listens at a time, and a daemon that keeps
\* running keeps the socket file: no daemon started beside it removes the
\* file or binds the path for itself.
C35_OneDaemonKeepsSocket ==
  /\ [](Cardinality(Serving(boot)) <= 1)
  /\ [][\A d \in Daemons :
          (d \in Serving(boot) /\ d \in Serving(boot') /\ boot.owner = d) =>
             boot'.owner = d]_vars

====
